---- MODULE Spec2Model ----
(***************************************************************************)
(* Session/state-management layer of Polaris: the ProviderManager          *)
(* (network session), the scan tracker of core/engine.ts, the REPL         *)
(* shutdown paths and the wallet-find probe.                               *)
(***************************************************************************)
EXTENDS Integers, Sequences, FiniteSets, TLC

NULL == "null"

(***************************************************************************)
(* core/config.ts: the network registry.  Three of the supported networks  *)
(* and one of the networks whose entry is undefined.                       *)
(***************************************************************************)
Supported == {"Ethereum", "Polygon", "Arbitrum"}
Unsupported == {"Hardhat"}
NetworkNames == Supported \cup Unsupported

NETWORK_CONFIGS ==
  [n \in NetworkNames |->
     CASE n = "Ethereum" -> [defined |-> TRUE, chainId |-> 1]
       [] n = "Polygon"  -> [defined |-> TRUE, chainId |-> 137]
       [] n = "Arbitrum" -> [defined |-> TRUE, chainId |-> 42161]
       [] OTHER          -> [defined |-> FALSE, chainId |-> 0]]

getSupportedNetworks == {n \in NetworkNames : NETWORK_CONFIGS[n].defined}

\* getFallbackProviderConfig(networkName): null iff the registry entry is undefined
getFallbackProviderConfig(n) ==
  IF NETWORK_CONFIGS[n].defined THEN [isNull |-> FALSE, chainId |-> NETWORK_CONFIGS[n].chainId]
  ELSE [isNull |-> TRUE, chainId |-> 0]

(***************************************************************************)
(* A JavaScript Set<NetworkName>: a duplicate-free sequence in insertion   *)
(* order.  A live iterator is the number of entries it has passed.         *)
(***************************************************************************)
SetHas(s, n) == \E i \in 1..Len(s) : s[i] = n
SetAdd(s, n) == IF SetHas(s, n) THEN s ELSE Append(s, n)
SetDelete(s, n) == SelectSeq(s, LAMBDA x : x # n)
SetMembers(s) == {s[i] : i \in 1..Len(s)}
IndexIn(s, n) == IF SetHas(s, n) THEN CHOOSE i \in 1..Len(s) : s[i] = n ELSE 0

(***************************************************************************)
(* The async call chains of the process.  Main is the REPL loop (or a      *)
(* direct caller of the ProviderManager API).                              *)
(***************************************************************************)
MaxSignals == 2

Main == <<"main", 0>>
SigintTask == <<"sigint", 0>>
CleanupTasks == {<<"cleanup", i>> : i \in 1..MaxSignals}
Tasks == {Main, SigintTask} \cup CleanupTasks

VARIABLES
  loadedNetworks,  \* ProviderManager.loadedNetworks (ctx.providerManager)
  activeNetwork,   \* ProviderManager.activeNetwork
  providers,       \* the engine's polling providers: "none" | "polling" | "paused"
  task,            \* per call chain: where it is suspended and on what
  last,            \* the ProviderManager call that returned to Main, until the next begins
  scanStates,      \* core/engine.ts scanStates: Map<number, ScanState>
  delivered,       \* per chain, the kinds of progress events delivered so far
  syncOut,         \* what the sync command printed in the step just taken
  syncPc,          \* the sync handler: not running, or in its --wait loop on a chain
  catalog,         \* wallets.json: {wallets, activeWalletId} (utils/storage.ts)
  salts,           \* <walletId>.salt files
  loadedWallets,   \* WalletManager.loadedWallets: Map<id, {encryptionKey}>
  engineWallets,   \* the engine's wallet database and its loaded wallets
  find,            \* the wallet find handler: its loop index and what it was given
  lastW,           \* the WalletManager / Storage call that a direct caller saw return last
  added,           \* the ids given to a completed addWallet and to no removeWallet since
  running,         \* cli/repl.ts startREPL: let running
  exited,          \* "no", or the code process.exit was called with
  engineInitialized, \* core/engine.ts engineInitialized
  dbInstance,      \* core/engine.ts dbInstance: "open" | "closed" | NULL
  signals,         \* how many SIGINT / SIGTERM signals the process has received
  cli,             \* the line runREPL read last, what findCommand made of it, the outcome
  shown,           \* the balance formatBalance was given last and the strings returned
  fileState,       \* wallets.json on disk: "ok" | "missing" | "unreadable" | "invalid"
  cachedData,      \* utils/storage.ts cachedData: StoredWalletData | null
  derived          \* the last two calls of utils/crypto.ts deriveEncryptionKey, with results

netVars == <<loadedNetworks, activeNetwork, providers>>
scanVars == <<scanStates, delivered, syncOut, syncPc>>
walletVars == <<catalog, salts, loadedWallets, engineWallets, find, lastW, added>>
cliVars == <<cli, shown>>
fileVars == <<fileState, cachedData>>
utilVars == <<fileVars, derived>>
replVars == <<running, exited, engineInitialized, dbInstance, signals, cliVars>>
vars == <<loadedNetworks, activeNetwork, providers, task, last,
          scanStates, delivered, syncOut, syncPc,
          catalog, salts, loadedWallets, engineWallets, find, lastW, added,
          running, exited, engineInitialized, dbInstance, signals, cli, shown,
          fileState, cachedData, derived>>
nonNetVars == <<scanVars, walletVars, replVars, utilVars>>
nonScanVars == <<netVars, task, last, walletVars, replVars, utilVars>>
nonWalletVars == <<netVars, task, last, scanVars, replVars, utilVars>>

NoProviders == [n \in NetworkNames |-> "none"]
Snapshot == [loaded |-> loadedNetworks, active |-> activeNetwork, providers |-> providers]
NoSnapshot == [loaded |-> <<>>, active |-> NULL, providers |-> NoProviders]
IdleTask == [pc |-> "idle", op |-> "none", arg |-> NULL, iter |-> 0,
             calls |-> <<>>, pre |-> NoSnapshot]
NoCall == [op |-> "none", arg |-> NULL, outcome |-> "none", calls |-> <<>>,
           pre |-> NoSnapshot]

\* no line read yet, nothing formatted yet
NoLine == [line |-> <<>>, found |-> FALSE, cmd |-> <<>>, args |-> <<>>, outcome |-> "none"]
NothingShown == [balance |-> <<"0">>, decimals |-> 0, repl |-> <<>>, oneShot |-> <<>>]

\* The process once initializeEngine has returned and startREPL has set
\* running (engine.ts:166-170, repl.ts:996); no signal received yet.
InitProcessVars ==
  /\ running = TRUE
  /\ exited = "no"
  /\ engineInitialized = TRUE
  /\ dbInstance = "open"
  /\ signals = 0

InitReplVars ==
  /\ InitProcessVars
  /\ cli = NoLine
  /\ shown = NothingShown

(***************************************************************************)
(* The engine's provider functions (@railgun-community/wallet), as the     *)
(* ProviderManager uses them.                                              *)
(***************************************************************************)
loadProvider(p, n) == [p EXCEPT ![n] = "polling"]
unloadProvider(p, n) == [p EXCEPT ![n] = "none"]
pauseAllPollingProviders(p, except) ==
  [m \in NetworkNames |-> IF m # except /\ p[m] = "polling" THEN "paused" ELSE p[m]]
resumeIsolatedPollingProviderForNetwork(p, n) ==
  LET q == pauseAllPollingProviders(p, n)
  IN  [q EXCEPT ![n] = IF q[n] = "paused" THEN "polling" ELSE q[n]]

\* A slip: the successor is read before the entry is deleted.
NextActiveBeforeDelete(loaded, n) == IF Len(loaded) > 0 THEN loaded[1] ELSE NULL

\* provider-manager.ts:65,68   this.loadedNetworks.delete(networkName);
\*                             this.loadedNetworks.values().next().value || null
NextActiveAfterUnload(loaded, n) ==
  LET remaining == SetDelete(loaded, n)
  IN  IF Len(remaining) > 0 THEN remaining[1] ELSE NULL

\* A slip: the iterator is an array index that a deletion leaves where it is.
IterAfterDeleteStays(pos, idx) == pos

\* Deleting entry idx of the Set moves every live iterator that has passed it.
IterAfterDelete(pos, idx) == IF idx > 0 /\ pos >= idx THEN pos - 1 ELSE pos

(***************************************************************************)
(* Return of a top-level ProviderManager call of task t.  The REPL loop    *)
(* then tests its condition (repl.ts:999): it prompts again while running  *)
(* is set and returns from runREPL otherwise.                              *)
(***************************************************************************)
Return(t, tk, outcome) ==
  /\ task' = [tk EXCEPT ![t] = [IdleTask EXCEPT !.pc = IF running THEN "idle" ELSE "returned"]]
  /\ last' = IF t = Main
             THEN [op |-> tk[t].op, arg |-> tk[t].arg, outcome |-> outcome,
                   calls |-> tk[t].calls, pre |-> tk[t].pre]
             ELSE last

Begin(t, o, n) == [task EXCEPT ![t] = [pc |-> "idle", op |-> o, arg |-> n, iter |-> 0,
                                       calls |-> <<>>, pre |-> Snapshot]]
Called(tk, t, c) == [tk EXCEPT ![t].calls = Append(@, c)]

(***************************************************************************)
(* ProviderManager.loadNetwork, provider-manager.ts lines 18-52.           *)
(***************************************************************************)
\* A slip: the provider is loaded again although the network is connected.
LoadNetworkCallReloads(t, n) ==
  /\ task[t].pc = "idle"
  /\ UNCHANGED nonNetVars
  /\ \/ /\ getFallbackProviderConfig(n).isNull
        /\ Return(t, Begin(t, "loadNetwork", n), "threw")
     \/ /\ ~getFallbackProviderConfig(n).isNull
        /\ task' = [Called(Begin(t, "loadNetwork", n), t, <<"loadProvider", n>>)
                      EXCEPT ![t].pc = "loadProvider"]
        /\ last' = NoCall
  /\ UNCHANGED netVars

\* lines 22-42: the synchronous part, up to the await of loadProvider
LoadNetworkCall(t, n) ==
  /\ task[t].pc = "idle"
  /\ UNCHANGED nonNetVars
  /\ \/ /\ SetHas(loadedNetworks, n)
        /\ Return(t, Begin(t, "loadNetwork", n), "ok")
     \/ /\ ~SetHas(loadedNetworks, n)
        /\ getFallbackProviderConfig(n).isNull
        /\ Return(t, Begin(t, "loadNetwork", n), "threw")
     \/ /\ ~SetHas(loadedNetworks, n)
        /\ ~getFallbackProviderConfig(n).isNull
        /\ task' = [Called(Begin(t, "loadNetwork", n), t, <<"loadProvider", n>>)
                      EXCEPT ![t].pc = "loadProvider"]
        /\ last' = NoCall
  /\ UNCHANGED netVars

\* lines 42-51: loadProvider resolved; the caller is loadNetwork itself or the
\* await of switchNetwork (line 79), which resumes in a later turn
LoadProviderReturns(t) ==
  /\ task[t].pc = "loadProvider"
  /\ UNCHANGED nonNetVars
  /\ providers' = loadProvider(providers, task[t].arg)
  /\ loadedNetworks' = SetAdd(loadedNetworks, task[t].arg)
  /\ activeNetwork' = task[t].arg
  /\ \/ /\ task[t].op = "loadNetwork"
        /\ Return(t, task, "ok")
     \/ /\ task[t].op = "switchNetwork"
        /\ task' = [task EXCEPT ![t].pc = "switchResume"]
        /\ last' = last

\* A slip: the network is recorded as connected before the load is awaited.
LoadProviderThrowsAfterAdd(t) ==
  /\ task[t].pc = "loadProvider"
  /\ UNCHANGED nonNetVars
  /\ Return(t, task, "threw")
  /\ loadedNetworks' = SetAdd(loadedNetworks, task[t].arg)
  /\ UNCHANGED <<activeNetwork, providers>>

\* line 42: loadProvider rejected; loadNetwork (and a calling switchNetwork) throws
LoadProviderThrows(t) ==
  /\ task[t].pc = "loadProvider"
  /\ UNCHANGED nonNetVars
  /\ Return(t, task, "threw")
  /\ UNCHANGED netVars

(***************************************************************************)
(* ProviderManager.switchNetwork, lines 77-87.                             *)
(***************************************************************************)
\* A slip: the target is made active without isolating its polling.
SwitchEffectNoPolling(n) ==
  /\ providers' = providers
  /\ activeNetwork' = n
  /\ loadedNetworks' = loadedNetworks

\* lines 82-85
SwitchEffect(n) ==
  /\ providers' = resumeIsolatedPollingProviderForNetwork(
                     pauseAllPollingProviders(providers, n), n)
  /\ activeNetwork' = n
  /\ loadedNetworks' = loadedNetworks

SwitchCalls(n) == << <<"pauseAllPollingProviders", n>>,
                     <<"resumeIsolatedPollingProviderForNetwork", n>> >>

SwitchNetworkCall(t, n) ==
  /\ task[t].pc = "idle"
  /\ UNCHANGED nonNetVars
  /\ \/ /\ SetHas(loadedNetworks, n)
        /\ SwitchEffect(n)
        /\ Return(t, [Begin(t, "switchNetwork", n) EXCEPT ![t].calls = SwitchCalls(n)], "ok")
     \/ /\ ~SetHas(loadedNetworks, n)
        /\ getFallbackProviderConfig(n).isNull
        /\ Return(t, Begin(t, "switchNetwork", n), "threw")
        /\ UNCHANGED netVars
     \/ /\ ~SetHas(loadedNetworks, n)
        /\ ~getFallbackProviderConfig(n).isNull
        /\ task' = [Called(Begin(t, "switchNetwork", n), t, <<"loadProvider", n>>)
                      EXCEPT ![t].pc = "loadProvider"]
        /\ last' = NoCall
        /\ UNCHANGED netVars

\* lines 82-86, after the await of loadNetwork
SwitchNetworkResume(t) ==
  /\ task[t].pc = "switchResume"
  /\ UNCHANGED nonNetVars
  /\ SwitchEffect(task[t].arg)
  /\ Return(t, [task EXCEPT ![t].calls = @ \o SwitchCalls(task[t].arg)], "ok")

(***************************************************************************)
(* ProviderManager.unloadNetwork, lines 57-72, and unloadAll, lines 120-124*)
(***************************************************************************)
UnloadNetworkCall(t, n) ==
  /\ task[t].pc = "idle"
  /\ UNCHANGED nonNetVars
  /\ \/ /\ ~SetHas(loadedNetworks, n)
        /\ Return(t, Begin(t, "unloadNetwork", n), "ok")
     \/ /\ SetHas(loadedNetworks, n)
        /\ task' = [Called(Begin(t, "unloadNetwork", n), t, <<"unloadProvider", n>>)
                      EXCEPT ![t].pc = "unloadProvider"]
        /\ last' = NoCall
  /\ UNCHANGED netVars

\* A slip: the active network is reassigned whichever network was unloaded.
UnloadEffectAlwaysReassign(n) ==
  /\ providers' = unloadProvider(providers, n)
  /\ loadedNetworks' = SetDelete(loadedNetworks, n)
  /\ activeNetwork' = NextActiveAfterUnload(loadedNetworks, n)

\* lines 64-69
UnloadEffect(n) ==
  /\ providers' = unloadProvider(providers, n)
  /\ loadedNetworks' = SetDelete(loadedNetworks, n)
  /\ activeNetwork' = IF activeNetwork = n
                      THEN NextActiveAfterUnload(loadedNetworks, n)
                      ELSE activeNetwork

\* every live unloadAll iterator, after entry n left the Set
MoveIterators(tk, n) ==
  [u \in Tasks |-> [tk[u] EXCEPT !.iter = IterAfterDelete(@, IndexIn(loadedNetworks, n))]]

\* lines 64-71: unloadProvider resolved
UnloadProviderReturns(t) ==
  /\ task[t].pc = "unloadProvider"
  /\ UNCHANGED nonNetVars
  /\ UnloadEffect(task[t].arg)
  /\ \/ /\ task[t].op = "unloadNetwork"
        /\ Return(t, MoveIterators(task, task[t].arg), "ok")
     \/ /\ task[t].op # "unloadNetwork"
        /\ task' = [MoveIterators(task, task[t].arg) EXCEPT ![t].pc = "unloadAllNext"]
        /\ last' = last

\* line 64: unloadProvider rejected; unloadNetwork (and a calling unloadAll) throws
UnloadProviderThrows(t) ==
  /\ task[t].pc = "unloadProvider"
  /\ UNCHANGED nonNetVars
  /\ Return(t, task, "threw")
  /\ UNCHANGED netVars

\* lines 121-122: the for-of step of unloadAll and the synchronous part of the
\* unloadNetwork it calls
UnloadAllStep(t, tk) ==
  IF tk[t].iter < Len(loadedNetworks)
  THEN LET n == loadedNetworks[tk[t].iter + 1]
       IN  [Called(tk, t, <<"unloadProvider", n>>)
              EXCEPT ![t].pc = "unloadProvider", ![t].arg = n, ![t].iter = @ + 1]
  ELSE [tk EXCEPT ![t].pc = "unloadAllDone"]

UnloadAllCall(t) ==
  /\ task[t].pc = "idle"
  /\ UNCHANGED nonNetVars
  /\ LET tk == UnloadAllStep(t, Begin(t, "unloadAll", NULL))
     IN  \/ /\ tk[t].pc = "unloadAllDone"
            /\ Return(t, tk, "ok")
         \/ /\ tk[t].pc = "unloadProvider"
            /\ task' = tk
            /\ last' = NoCall
  /\ UNCHANGED netVars

\* line 121 after the await of line 122
UnloadAllNext(t) ==
  /\ task[t].pc = "unloadAllNext"
  /\ UNCHANGED nonNetVars
  /\ task[t].op = "unloadAll"
  /\ LET tk == UnloadAllStep(t, task)
     IN  \/ /\ tk[t].pc = "unloadAllDone"
            /\ Return(t, tk, "ok")
         \/ /\ tk[t].pc = "unloadProvider"
            /\ task' = tk
            /\ last' = last
  /\ UNCHANGED netVars

(***************************************************************************)
(* The scan tracker of core/engine.ts, lines 30-38, 89-135 and 243-266.    *)
(***************************************************************************)
MerkletreeScanStatus == {"Started", "Updated", "Complete", "Incomplete"}
\* the events the engine pushes: a status with its progress, in percent
ScanEvents == {<<"Started", 0>>, <<"Updated", 50>>, <<"Complete", 100>>, <<"Incomplete", 50>>}
\* the chains the engine scans
ScanChains == {NETWORK_CONFIGS[n].chainId : n \in {"Ethereum", "Polygon"}}

\* a Map entry that is absent
NoScanState == [present |-> FALSE, utxoStatus |-> "Started", utxoProgress |-> 0,
                txidStatus |-> "Started", txidProgress |-> 0]

\* A slip: a new entry starts with both tracks Complete.
getOrCreateScanStateComplete(states, chainId) ==
  IF ~states[chainId].present
  THEN [states EXCEPT ![chainId] =
          [present |-> TRUE, utxoStatus |-> "Complete", utxoProgress |-> 0,
           txidStatus |-> "Complete", txidProgress |-> 0]]
  ELSE states

\* lines 89-99
getOrCreateScanState(states, chainId) ==
  IF ~states[chainId].present
  THEN [states EXCEPT ![chainId] =
          [present |-> TRUE, utxoStatus |-> "Started", utxoProgress |-> 0,
           txidStatus |-> "Started", txidProgress |-> 0]]
  ELSE states

\* lines 243-245
getScanState(chainId) == scanStates[chainId]

\* lines 262-266
isUTXOScanComplete(chainId) ==
  IF ~scanStates[chainId].present THEN FALSE
  ELSE scanStates[chainId].utxoStatus = "Complete"

\* lines 250-257
isScanComplete(chainId) ==
  IF ~scanStates[chainId].present THEN FALSE
  ELSE /\ scanStates[chainId].utxoStatus = "Complete"
       /\ scanStates[chainId].txidStatus = "Complete"

EventKind(track, status) ==
  IF track = "txid" THEN (IF status = "Complete" THEN "txidComplete" ELSE "txidOther")
  ELSE (IF status = "Complete" THEN "utxoComplete" ELSE "utxoOther")

Deliver(chainId, track, status) ==
  delivered' = [delivered EXCEPT ![chainId] = @ \cup {EventKind(track, status)}]

\* A slip: the UTXO callback writes the status into both tracks.
defaultUTXOMerkletreeScanCallbackBothTracks(chainId, scanStatus, progress) ==
  /\ scanStates' = [getOrCreateScanState(scanStates, chainId) EXCEPT
                      ![chainId].utxoStatus = scanStatus,
                      ![chainId].utxoProgress = progress,
                      ![chainId].txidStatus = scanStatus]
  /\ Deliver(chainId, "utxo", scanStatus)
  /\ syncOut' = "none"
  /\ UNCHANGED <<nonScanVars, syncPc>>

\* lines 114-124
defaultUTXOMerkletreeScanCallback(chainId, scanStatus, progress) ==
  /\ scanStates' = [getOrCreateScanState(scanStates, chainId) EXCEPT
                      ![chainId].utxoStatus = scanStatus,
                      ![chainId].utxoProgress = progress]
  /\ Deliver(chainId, "utxo", scanStatus)
  /\ syncOut' = "none"
  /\ UNCHANGED <<nonScanVars, syncPc>>

\* lines 129-135
defaultTXIDMerkletreeScanCallback(chainId, scanStatus, progress) ==
  /\ scanStates' = [getOrCreateScanState(scanStates, chainId) EXCEPT
                      ![chainId].txidStatus = scanStatus,
                      ![chainId].txidProgress = progress]
  /\ Deliver(chainId, "txid", scanStatus)
  /\ syncOut' = "none"
  /\ UNCHANGED <<nonScanVars, syncPc>>

(***************************************************************************)
(* The sync command, cli/repl.ts lines 652-724.                            *)
(***************************************************************************)
NotSyncing == [pc |-> "prompt", chainId |-> 0]
\* the messages that tell the user the data is synced
SyncedMessages == {"appearsSynced", "syncComplete", "waitComplete"}

\* A slip: the TXID track decides the report.
SyncReportByTxid(state, shouldWait) ==
  IF ~state.present THEN "appearsSynced"
  ELSE IF shouldWait /\ state.txidStatus # "Complete" THEN "waiting"
  ELSE IF state.txidStatus = "Complete" THEN "syncComplete"
  ELSE "inProgress"

\* lines 688-722: which branch the handler takes on the state it read
SyncReport(state, shouldWait) ==
  IF ~state.present THEN "appearsSynced"
  ELSE IF shouldWait /\ state.utxoStatus # "Complete" THEN "waiting"
  ELSE IF state.utxoStatus = "Complete" THEN "syncComplete"
  ELSE "inProgress"

\* lines 652-723, up to the return or the first await of the --wait loop
SyncCommand(shouldWait) ==
  /\ syncPc.pc = "prompt"
  /\ task[Main].pc = "idle"
  /\ \/ /\ activeNetwork = NULL
        /\ syncOut' = "noNetwork"
        /\ syncPc' = syncPc
     \/ /\ activeNetwork # NULL
        /\ ~NETWORK_CONFIGS[activeNetwork].defined
        /\ syncOut' = "noConfig"
        /\ syncPc' = syncPc
     \/ /\ activeNetwork # NULL
        /\ NETWORK_CONFIGS[activeNetwork].defined
        /\ LET chainId == NETWORK_CONFIGS[activeNetwork].chainId
               msg == SyncReport(getScanState(chainId), shouldWait)
           IN  /\ syncOut' = msg
               /\ syncPc' = IF msg = "waiting" THEN [pc |-> "waiting", chainId |-> chainId]
                            ELSE syncPc
  /\ UNCHANGED <<nonScanVars, scanStates, delivered>>

\* lines 708-717: the timer of line 709 fired; the loop condition is read again
SyncPoll ==
  /\ syncPc.pc = "waiting"
  /\ \/ /\ ~isUTXOScanComplete(syncPc.chainId)
        /\ syncOut' = "progress"
        /\ syncPc' = syncPc
     \/ /\ isUTXOScanComplete(syncPc.chainId)
        /\ syncOut' = "waitComplete"
        /\ syncPc' = NotSyncing
  /\ UNCHANGED <<nonScanVars, scanStates, delivered>>

InitScanVars ==
  /\ scanStates = [c \in ScanChains |-> NoScanState]
  /\ delivered = [c \in ScanChains |-> {}]
  /\ syncOut = "none"
  /\ syncPc = NotSyncing

(***************************************************************************)
(* The wallet session: utils/storage.ts (Storage), utils/crypto.ts and     *)
(* WalletManager (wallet/wallet-manager.ts, kept in types/snarkjs.d.ts     *)
(* lines 40-312).                                                          *)
(***************************************************************************)
MaxIndex == 1
\* the largest --num the find command is given
MaxNumIndices == 2

Mnemonics == {"m1"}
InvalidMnemonics == {"bad"}
DerivationIndices == 0..MaxIndex
\* the id the engine derives from a mnemonic and a derivation index
WalletIdOf(mnemonic, index) == <<mnemonic, index>>
\* shareable viewing keys, and the id the engine derives from one
ViewingKeys == {"vk1"}
ViewOnlyIdOf(shareableViewingKey) == <<shareableViewingKey, 0>>
WalletIds == {WalletIdOf(m, i) : m \in Mnemonics, i \in 0..MaxNumIndices - 1} \cup
             {WalletIdOf(m, i) : m \in Mnemonics, i \in DerivationIndices} \cup
             {ViewOnlyIdOf(k) : k \in ViewingKeys}
NoWallet == <<NULL, 0>>

\* cli/repl.ts:483
tempPassword == "temporary_password_for_address_check"
Passwords == {"longenough1", tempPassword}
\* randomBytes(16).toString('hex'), crypto.ts:7
Salts == {"s1", "s2"}
NoSalt == ""
NoKey == <<"", "">>

\* crypto.ts:6-10 with a salt supplied: PBKDF2 of (password, salt)
deriveEncryptionKey(password, salt) == [key |-> <<password, salt>>, salt |-> salt]

\* snarkjs.d.ts:59-61
validateMnemonic(mnemonic) == mnemonic \in Mnemonics

NoEngineWallet == [exists |-> FALSE, key |-> NoKey, loaded |-> FALSE]

\* an entry of the loadedWallets Map, and the value of a missing one
LoadedEntry(key) == [has |-> TRUE, encryptionKey |-> key]
NotLoaded == [has |-> FALSE, encryptionKey |-> NoKey]
\* snarkjs.d.ts:278-280
isWalletLoaded(lw, id) == lw[id].has
\* snarkjs.d.ts:285-288   wallet?.encryptionKey || null
getWalletEncryptionKey(lw, id) ==
  IF lw[id].has /\ lw[id].encryptionKey # NoKey THEN lw[id].encryptionKey ELSE NULL

\* the wallet session as one value
WalletState == [catalog |-> catalog, salts |-> salts, loadedWallets |-> loadedWallets,
                engineWallets |-> engineWallets, calls |-> <<>>, added |-> added]
\* the call being made has called the engine function c
EngineCalled(w, c) == [w EXCEPT !.calls = Append(@, c)]

(* Storage ---------------------------------------------------------------*)
CatalogHas(cat, id) == \E i \in 1..Len(cat.wallets) : cat.wallets[i] = id

\* A slip: the record is pushed without looking for an existing one.
addWalletAgain(cat, id) ==
  [wallets |-> Append(cat.wallets, id),
   activeWalletId |-> IF cat.activeWalletId = NoWallet THEN id ELSE cat.activeWalletId]

\* storage.ts:56-66, on the catalog read from the file
addWallet(cat, id) ==
  IF CatalogHas(cat, id) THEN cat
  ELSE [wallets |-> Append(cat.wallets, id),
        activeWalletId |-> IF cat.activeWalletId = NoWallet THEN id ELSE cat.activeWalletId]

\* A slip: the active id is kept when its record is removed.
removeWalletKeepsActive(cat, id) ==
  [wallets |-> SelectSeq(cat.wallets, LAMBDA w : w # id),
   activeWalletId |-> cat.activeWalletId]

\* storage.ts:68-75
removeWallet(cat, id) ==
  LET rest == SelectSeq(cat.wallets, LAMBDA w : w # id)
  IN  [wallets |-> rest,
       activeWalletId |-> IF cat.activeWalletId = id
                          THEN (IF Len(rest) > 0 THEN rest[1] ELSE NoWallet)
                          ELSE cat.activeWalletId]

\* A slip: the id is made active without looking for its record.
setActiveWalletUnchecked(cat, id) == [cat |-> [cat EXCEPT !.activeWalletId = id], ok |-> TRUE]

\* storage.ts:89-97; ok is false when the id is not found and the call throws
setActiveWallet(cat, id) ==
  IF CatalogHas(cat, id)
  THEN [cat |-> [cat EXCEPT !.activeWalletId = id], ok |-> TRUE]
  ELSE [cat |-> cat, ok |-> FALSE]

\* storage.ts:77-81, 99-102, 104-107: what is returned, as a list of records
getActiveWallet(cat) ==
  IF cat.activeWalletId = NoWallet THEN <<>>
  ELSE SelectSeq(cat.wallets, LAMBDA w : w = cat.activeWalletId)
getAllWallets(cat) == cat.wallets
getWalletById(cat, id) == SelectSeq(cat.wallets, LAMBDA w : w = id)

\* A slip: the wallet added last becomes the active one.
AddedWalletBecomesActive(w, id) ==
  [w EXCEPT !.catalog = [addWallet(@, id) EXCEPT !.activeWalletId = id],
            !.added = @ \cup {id}]

\* a completed Storage.addWallet / Storage.removeWallet in the session w
AddedWallet(w, id) == [w EXCEPT !.catalog = addWallet(@, id), !.added = @ \cup {id}]
RemovedWallet(w, id) == [w EXCEPT !.catalog = removeWallet(@, id), !.added = @ \ {id}]

(* The engine's wallet functions (@railgun-community/wallet) -------------*)
\* createRailgunWallet: a wallet already loaded is returned as it is; otherwise
\* the wallet is written under the key and loaded
EngineCreate(eng, key, id) ==
  IF eng[id].loaded THEN eng
  ELSE [eng EXCEPT ![id] = [exists |-> TRUE, key |-> key, loaded |-> TRUE]]

\* loadWalletByID succeeds on a loaded wallet, or on a stored one under its key
EngineCanLoad(eng, key, id) == eng[id].loaded \/ (eng[id].exists /\ eng[id].key = key)
EngineLoad(eng, id) == [eng EXCEPT ![id].loaded = TRUE]
EngineUnload(eng, id) == [eng EXCEPT ![id].loaded = FALSE]
EngineDelete(eng, id) == [eng EXCEPT ![id] = NoEngineWallet]

Threw(w, id, err) == [w |-> w, ok |-> FALSE, id |-> id, err |-> err]
Returned(w, id) == [w |-> w, ok |-> TRUE, id |-> id, err |-> "none"]
\* what the engine or the file system throws
EngineError == "engine error"
IOError == "io error"

(* WalletManager ---------------------------------------------------------*)
CreateFailures == {"none", "engineCreate", "catalogWrite", "saltWrite"}
DeleteFailures == {"none", "engineLoad", "engineDelete", "catalogWrite"}

\* A slip: the mnemonic is validated after the engine has been called.
createWalletValidatesLate(w, mnemonic, password, index, salt, fail) ==
  LET id == WalletIdOf(mnemonic, index)
      key == deriveEncryptionKey(password, salt).key
      w0 == EngineCalled(w, "createRailgunWallet")
      w1 == [w0 EXCEPT !.engineWallets = EngineCreate(@, key, id)]
      w2 == AddedWallet(w1, id)
      w3 == [w2 EXCEPT !.salts[id] = salt]
      w4 == [w3 EXCEPT !.loadedWallets[id] = LoadedEntry(key)]
  IN  IF ~validateMnemonic(mnemonic) THEN Threw(w0, id, "Invalid mnemonic phrase")
      ELSE IF fail = "engineCreate" THEN Threw(w0, id, EngineError)
      ELSE IF fail = "catalogWrite" /\ ~CatalogHas(w1.catalog, id) THEN Threw(w1, id, IOError)
      ELSE IF fail = "saltWrite" THEN Threw(w2, id, IOError)
      ELSE Returned(w4, id)

\* snarkjs.d.ts:66-110; salt is the fresh salt drawn at line 78, fail is the
\* step that throws
createWallet(w, mnemonic, password, index, salt, fail) ==
  LET id == WalletIdOf(mnemonic, index)
      key == deriveEncryptionKey(password, salt).key
      w0 == EngineCalled(w, "createRailgunWallet")
      w1 == [w0 EXCEPT !.engineWallets = EngineCreate(@, key, id)]
      w2 == AddedWallet(w1, id)
      w3 == [w2 EXCEPT !.salts[id] = salt]
      w4 == [w3 EXCEPT !.loadedWallets[id] = LoadedEntry(key)]
  IN  IF ~validateMnemonic(mnemonic) THEN Threw(w, id, "Invalid mnemonic phrase")
      ELSE IF fail = "engineCreate" THEN Threw(w0, id, EngineError)
      ELSE IF fail = "catalogWrite" /\ ~CatalogHas(w1.catalog, id) THEN Threw(w1, id, IOError)
      ELSE IF fail = "saltWrite" THEN Threw(w2, id, IOError)
      ELSE Returned(w4, id)

\* A slip: the engine deletion comes before the load that proves the password.
deleteWalletDeletesFirst(w, id, password, fail) ==
  LET salt == w.salts[id]
      key == deriveEncryptionKey(password, salt).key
      w0 == EngineCalled(w, "deleteWalletByID")
      w1 == EngineCalled([w0 EXCEPT !.engineWallets = EngineDelete(@, id)], "loadWalletByID")
      w3 == RemovedWallet(w1, id)
      w4 == [w3 EXCEPT !.loadedWallets[id] = NotLoaded]
  IN  IF salt = NoSalt THEN Threw(w, id, "Wallet not found")
      ELSE IF fail = "engineDelete" THEN Threw(w0, id, EngineError)
      ELSE IF fail = "engineLoad" \/ ~EngineCanLoad(w.engineWallets, key, id)
           THEN Threw(w1, id, EngineError)
      ELSE IF fail = "catalogWrite" THEN Threw(w1, id, IOError)
      ELSE Returned(w4, id)

\* A slip: the loadedWallets.delete of line 211 is missing.
deleteWalletKeepsSession(w, id, password, fail) ==
  LET salt == w.salts[id]
      key == deriveEncryptionKey(password, salt).key
      w0 == EngineCalled(w, "loadWalletByID")
      w1 == EngineCalled([w0 EXCEPT !.engineWallets = EngineLoad(@, id)], "deleteWalletByID")
      w2 == [w1 EXCEPT !.engineWallets = EngineDelete(@, id)]
      w3 == RemovedWallet(w2, id)
  IN  IF salt = NoSalt THEN Threw(w, id, "Wallet not found")
      ELSE IF fail = "engineLoad" \/ ~EngineCanLoad(w.engineWallets, key, id)
           THEN Threw(w0, id, EngineError)
      ELSE IF fail = "engineDelete" THEN Threw(w1, id, EngineError)
      ELSE IF fail = "catalogWrite" THEN Threw(w2, id, IOError)
      ELSE Returned(w3, id)

\* snarkjs.d.ts:195-214
deleteWallet(w, id, password, fail) ==
  LET salt == w.salts[id]
      key == deriveEncryptionKey(password, salt).key
      w0 == EngineCalled(w, "loadWalletByID")
      w1 == EngineCalled([w0 EXCEPT !.engineWallets = EngineLoad(@, id)], "deleteWalletByID")
      w2 == [w1 EXCEPT !.engineWallets = EngineDelete(@, id)]
      w3 == RemovedWallet(w2, id)
      w4 == [w3 EXCEPT !.loadedWallets[id] = NotLoaded]
  IN  IF salt = NoSalt THEN Threw(w, id, "Wallet not found")
      ELSE IF fail = "engineLoad" \/ ~EngineCanLoad(w.engineWallets, key, id)
           THEN Threw(w0, id, EngineError)
      ELSE IF fail = "engineDelete" THEN Threw(w1, id, EngineError)
      ELSE IF fail = "catalogWrite" THEN Threw(w2, id, IOError)
      ELSE Returned(w4, id)

\* A slip: the wallet is marked loaded before the engine has accepted the key.
loadWalletMarksFirst(w, id, password, fail) ==
  LET salt == w.salts[id]
      key == deriveEncryptionKey(password, salt).key
      w0 == EngineCalled([w EXCEPT !.loadedWallets[id] = LoadedEntry(key)], "loadWalletByID")
      w1 == [w0 EXCEPT !.engineWallets = EngineLoad(@, id)]
  IN  IF ~CatalogHas(w.catalog, id) THEN Threw(w, id, "Wallet not found")
      ELSE IF salt = NoSalt THEN Threw(w, id, "Encryption salt not found for wallet")
      ELSE IF fail = "engineLoad" \/ ~EngineCanLoad(w.engineWallets, key, id)
           THEN Threw(w0, id, EngineError)
      ELSE Returned(w1, id)

\* snarkjs.d.ts:153-176
loadWallet(w, id, password, fail) ==
  LET salt == w.salts[id]
      key == deriveEncryptionKey(password, salt).key
      w0 == EngineCalled(w, "loadWalletByID")
      w1 == [w0 EXCEPT !.engineWallets = EngineLoad(@, id)]
      w2 == [w1 EXCEPT !.loadedWallets[id] = LoadedEntry(key)]
  IN  IF ~CatalogHas(w.catalog, id) THEN Threw(w, id, "Wallet not found")
      ELSE IF salt = NoSalt THEN Threw(w, id, "Encryption salt not found for wallet")
      ELSE IF fail = "engineLoad" \/ ~EngineCanLoad(w.engineWallets, key, id)
           THEN Threw(w0, id, EngineError)
      ELSE Returned(w2, id)

\* A slip: the has-check of line 182 is missing.
unloadWalletUnguarded(w, id, fail) ==
  LET w0 == EngineCalled(w, "unloadWalletByID")
      w1 == [w0 EXCEPT !.engineWallets = EngineUnload(@, id)]
      w2 == [w1 EXCEPT !.loadedWallets[id] = NotLoaded]
  IN  IF fail = "engineUnload" THEN Threw(w0, id, EngineError)
      ELSE Returned(w2, id)

\* snarkjs.d.ts:181-190
unloadWallet(w, id, fail) ==
  LET w0 == EngineCalled(w, "unloadWalletByID")
      w1 == [w0 EXCEPT !.engineWallets = EngineUnload(@, id)]
      w2 == [w1 EXCEPT !.loadedWallets[id] = NotLoaded]
  IN  IF ~isWalletLoaded(w.loadedWallets, id) THEN Returned(w, id)
      ELSE IF fail = "engineUnload" THEN Threw(w0, id, EngineError)
      ELSE Returned(w2, id)

\* snarkjs.d.ts:219-234: the wallet is loaded into the engine when the session
\* does not hold it, and the session is left as it was
exportMnemonic(w, id, password, fail) ==
  LET salt == w.salts[id]
      key == deriveEncryptionKey(password, salt).key
      held == isWalletLoaded(w.loadedWallets, id)
      w0 == IF held THEN w ELSE EngineCalled(w, "loadWalletByID")
      w1 == IF held THEN w ELSE [w0 EXCEPT !.engineWallets = EngineLoad(@, id)]
      w2 == EngineCalled(w1, "getWalletMnemonic")
  IN  IF salt = NoSalt THEN Threw(w, id, "Wallet not found")
      ELSE IF ~held /\ (fail = "engineLoad" \/ ~EngineCanLoad(w.engineWallets, key, id))
           THEN Threw(w0, id, EngineError)
      ELSE IF fail = "engineMnemonic" \/ w1.engineWallets[id].key # key
           THEN Threw(w2, id, EngineError)
      ELSE Returned(w2, id)

\* snarkjs.d.ts:239-245
getViewingKey(w, id, fail) ==
  IF ~isWalletLoaded(w.loadedWallets, id) THEN Threw(w, id, "Wallet not loaded")
  ELSE IF fail = "engineViewingKey"
       THEN Threw(EngineCalled(w, "getWalletShareableViewingKey"), id, EngineError)
  ELSE Returned(EngineCalled(w, "getWalletShareableViewingKey"), id)

\* cli/repl.ts:486-492 (and cli/commands/wallet.ts:124-135): one iteration of
\* the probe; the catch swallows whatever was thrown
findIteration(w, mnemonic, i, salt, failCreate, failDelete) ==
  LET created == createWallet(w, mnemonic, tempPassword, i, salt, failCreate)
  IN  IF created.ok THEN deleteWallet(created.w, created.id, tempPassword, failDelete).w
      ELSE created.w

\* the session after construction, and no call observed yet
EmptyWalletState ==
  [catalog |-> [wallets |-> <<>>, activeWalletId |-> NoWallet],
   salts |-> [id \in WalletIds |-> NoSalt],
   loadedWallets |-> [id \in WalletIds |-> NotLoaded],
   engineWallets |-> [id \in WalletIds |-> NoEngineWallet],
   calls |-> <<>>, added |-> {}]
\* cachedData = null, utils/storage.ts:9
NoCache == [cached |-> FALSE, data |-> [wallets |-> <<>>, activeWalletId |-> NoWallet]]
NoWalletCall == [op |-> "none", id |-> NoWallet, ok |-> TRUE, err |-> "none",
                 calls |-> <<>>, result |-> <<>>, pre |-> EmptyWalletState]

Becomes(w) ==
  /\ catalog' = w.catalog
  /\ salts' = w.salts
  /\ loadedWallets' = w.loadedWallets
  /\ engineWallets' = w.engineWallets
  /\ added' = w.added

NotFinding == [pc |-> "prompt", mnemonic |-> NULL, numIndices |-> 0, i |-> 0,
               before |-> {}, pre |-> EmptyWalletState]
AtPrompt == find.pc = "prompt"

\* wallet create / wallet import, cli/repl.ts:265 and 323
CreateWallet(mnemonic, password, index, salt, fail) ==
  /\ AtPrompt
  /\ Becomes(createWallet(WalletState, mnemonic, password, index, salt, fail).w)
  /\ UNCHANGED <<find, lastW, nonWalletVars>>

\* wallet load, cli/repl.ts:393
LoadWallet(id, password, fail) ==
  /\ AtPrompt
  /\ Becomes(loadWallet(WalletState, id, password, fail).w)
  /\ UNCHANGED <<find, lastW, nonWalletVars>>

UnloadWallet(id, fail) ==
  /\ AtPrompt
  /\ Becomes(unloadWallet(WalletState, id, fail).w)
  /\ UNCHANGED <<find, lastW, nonWalletVars>>

\* wallet delete, cli/commands/wallet.ts:442
DeleteWallet(id, password, fail) ==
  /\ AtPrompt
  /\ Becomes(deleteWallet(WalletState, id, password, fail).w)
  /\ UNCHANGED <<find, lastW, nonWalletVars>>

\* cli/repl.ts:457-481: wallet find is given a valid mnemonic and a count
FindStart(mnemonic, numIndices) ==
  /\ AtPrompt
  /\ find' = [pc |-> "loop", mnemonic |-> mnemonic, numIndices |-> numIndices, i |-> 0,
              before |-> {catalog.wallets[k] : k \in 1..Len(catalog.wallets)},
              pre |-> WalletState]
  /\ UNCHANGED <<catalog, salts, loadedWallets, engineWallets, lastW, added, nonWalletVars>>

\* cli/repl.ts:485-493
FindIteration(salt, failCreate, failDelete) ==
  /\ find.pc = "loop"
  /\ find.i < find.numIndices
  /\ Becomes(findIteration(WalletState, find.mnemonic, find.i, salt, failCreate, failDelete))
  /\ find' = [find EXCEPT !.i = @ + 1]
  /\ UNCHANGED <<lastW, nonWalletVars>>

\* cli/repl.ts:495-499
FindReturn ==
  /\ find.pc = "loop"
  /\ find.i = find.numIndices
  /\ find' = NotFinding
  /\ UNCHANGED <<catalog, salts, loadedWallets, engineWallets, lastW, added, nonWalletVars>>

InitWalletVars ==
  /\ catalog = [wallets |-> <<>>, activeWalletId |-> NoWallet]
  /\ salts = [id \in WalletIds |-> NoSalt]
  /\ loadedWallets = [id \in WalletIds |-> NotLoaded]
  /\ engineWallets = [id \in WalletIds |-> NoEngineWallet]
  /\ find = NotFinding
  /\ lastW = NoWalletCall
  /\ added = {}
  /\ fileState = "ok"
  /\ cachedData = NoCache
  /\ derived = <<>>

InitWallet ==
  /\ loadedNetworks = <<>>
  /\ activeNetwork = NULL
  /\ providers = NoProviders
  /\ task = [t \in Tasks |-> IdleTask]
  /\ last = NoCall
  /\ InitScanVars
  /\ InitWalletVars
  /\ InitReplVars

NextWallet ==
  \/ \E m \in Mnemonics \cup InvalidMnemonics, pw \in Passwords, i \in DerivationIndices,
        s \in Salts, f \in CreateFailures : CreateWallet(m, pw, i, s, f)
  \/ \E id \in WalletIds, pw \in Passwords, f \in {"none", "engineLoad"} : LoadWallet(id, pw, f)
  \/ \E id \in WalletIds, f \in {"none", "engineUnload"} : UnloadWallet(id, f)
  \/ \E id \in WalletIds, pw \in Passwords, f \in DeleteFailures : DeleteWallet(id, pw, f)
  \/ \E m \in Mnemonics, n \in 1..MaxNumIndices : FindStart(m, n)
  \/ \E s \in Salts, fc \in CreateFailures, fd \in DeleteFailures : FindIteration(s, fc, fd)
  \/ FindReturn

SpecWallet == InitWallet /\ [][NextWallet]_vars

(***************************************************************************)
(* Storage and WalletManager under a caller that sees each call return:    *)
(* lastW holds the call, its outcome, the engine functions it called, what *)
(* it returned and the session it started from.                            *)
(***************************************************************************)
StorageFailures == {"none", "write"}

\* storage.ts:49-54   the call has reached writeWalletData
FileWritten(w) == [w EXCEPT !.calls = Append(@, "writeWalletData")]

\* storage.ts:56-66 as a call; writeWalletData (line 64) may throw
storageAddWallet(w, id, fail) ==
  IF CatalogHas(w.catalog, id) THEN Returned(AddedWallet(w, id), id)
  ELSE IF fail = "write" THEN Threw(FileWritten(w), id, IOError)
  ELSE Returned(AddedWallet(FileWritten(w), id), id)

\* storage.ts:68-75 as a call
storageRemoveWallet(w, id, fail) ==
  IF fail = "write" THEN Threw(FileWritten(w), id, IOError)
  ELSE Returned(RemovedWallet(FileWritten(w), id), id)

\* storage.ts:89-97 as a call (WalletManager.setActiveWallet, snarkjs.d.ts:271-273,
\* passes it through)
storageSetActiveWallet(w, id, fail) ==
  LET r == setActiveWallet(w.catalog, id)
  IN  IF ~r.ok THEN Threw(w, id, "Wallet not found")
      ELSE IF fail = "write" THEN Threw(FileWritten(w), id, IOError)
      ELSE Returned([FileWritten(w) EXCEPT !.catalog = r.cat], id)

\* snarkjs.d.ts:115-148
createViewOnlyWallet(w, shareableViewingKey, password, salt, fail) ==
  LET id == ViewOnlyIdOf(shareableViewingKey)
      key == deriveEncryptionKey(password, salt).key
      w0 == EngineCalled(w, "createViewOnlyRailgunWallet")
      w1 == [w0 EXCEPT !.engineWallets = EngineCreate(@, key, id)]
      w2 == AddedWallet(w1, id)
      w3 == [w2 EXCEPT !.salts[id] = salt]
      w4 == [w3 EXCEPT !.loadedWallets[id] = LoadedEntry(key)]
  IN  IF fail = "engineCreate" THEN Threw(w0, id, EngineError)
      ELSE IF fail = "catalogWrite" /\ ~CatalogHas(w1.catalog, id) THEN Threw(w1, id, IOError)
      ELSE IF fail = "saltWrite" THEN Threw(w2, id, IOError)
      ELSE Returned(w4, id)

\* the call returns (or throws) to its caller
Observed(o, r, res) ==
  /\ Becomes(r.w)
  /\ lastW' = [op |-> o, id |-> r.id, ok |-> r.ok, err |-> r.err, calls |-> r.w.calls,
               result |-> res, pre |-> WalletState]
  /\ UNCHANGED <<find, nonWalletVars>>

CallAddWallet(id, fail) ==
  /\ AtPrompt
  /\ Observed("addWallet", storageAddWallet(WalletState, id, fail), <<>>)

CallRemoveWallet(id, fail) ==
  /\ AtPrompt
  /\ Observed("removeWallet", storageRemoveWallet(WalletState, id, fail), <<>>)

CallSetActiveWallet(id, fail) ==
  /\ AtPrompt
  /\ Observed("setActiveWallet", storageSetActiveWallet(WalletState, id, fail), <<>>)

CallGetWalletById(id) ==
  /\ AtPrompt
  /\ Observed("getWalletById", Returned(WalletState, id), getWalletById(catalog, id))

CallGetActiveWallet ==
  /\ AtPrompt
  /\ Observed("getActiveWallet", Returned(WalletState, NoWallet), getActiveWallet(catalog))

CallGetAllWallets ==
  /\ AtPrompt
  /\ Observed("getAllWallets", Returned(WalletState, NoWallet), getAllWallets(catalog))

CallCreateWallet(mnemonic, password, index, salt, fail) ==
  /\ AtPrompt
  /\ Observed("createWallet",
              createWallet(WalletState, mnemonic, password, index, salt, fail), <<>>)

CallCreateViewOnlyWallet(shareableViewingKey, password, salt, fail) ==
  /\ AtPrompt
  /\ Observed("createViewOnlyWallet",
              createViewOnlyWallet(WalletState, shareableViewingKey, password, salt, fail), <<>>)

CallLoadWallet(id, password, fail) ==
  /\ AtPrompt
  /\ Observed("loadWallet", loadWallet(WalletState, id, password, fail), <<>>)

CallUnloadWallet(id, fail) ==
  /\ AtPrompt
  /\ Observed("unloadWallet", unloadWallet(WalletState, id, fail), <<>>)

CallDeleteWallet(id, password, fail) ==
  /\ AtPrompt
  /\ Observed("deleteWallet", deleteWallet(WalletState, id, password, fail), <<>>)

CallExportMnemonic(id, password, fail) ==
  /\ AtPrompt
  /\ Observed("exportMnemonic", exportMnemonic(WalletState, id, password, fail), <<>>)

CallGetViewingKey(id, fail) ==
  /\ AtPrompt
  /\ Observed("getViewingKey", getViewingKey(WalletState, id, fail), <<>>)

\* The Storage class by itself, and the WalletManager operations that add
\* and remove records through it.
NextStorage ==
  \/ \E id \in WalletIds, f \in StorageFailures : CallAddWallet(id, f)
  \/ \E id \in WalletIds, f \in StorageFailures : CallRemoveWallet(id, f)
  \/ \E id \in WalletIds, f \in StorageFailures : CallSetActiveWallet(id, f)
  \/ \E id \in WalletIds : CallGetWalletById(id)
  \/ CallGetActiveWallet
  \/ CallGetAllWallets
  \/ \E m \in Mnemonics, f \in CreateFailures :
        CallCreateWallet(m, tempPassword, 0, "s1", f)
  \/ \E m \in Mnemonics, f \in DeleteFailures :
        CallDeleteWallet(WalletIdOf(m, 0), tempPassword, f)

SpecStorage == InitWallet /\ [][NextStorage]_vars

\* The WalletManager under a caller that creates, loads, unloads and deletes
\* a wallet of a mnemonic and a view-only wallet.
CalledIds == {WalletIdOf(m, 0) : m \in Mnemonics} \cup {ViewOnlyIdOf(k) : k \in ViewingKeys}

NextWalletOps ==
  \/ \E m \in Mnemonics \cup InvalidMnemonics, pw \in Passwords, s \in Salts,
        f \in CreateFailures : CallCreateWallet(m, pw, 0, s, f)
  \/ \E k \in ViewingKeys : CallCreateViewOnlyWallet(k, tempPassword, "s1", "none")
  \/ \E m \in Mnemonics, pw \in Passwords, f \in {"none", "engineLoad"} :
        CallLoadWallet(WalletIdOf(m, 0), pw, f)
  \/ \E id \in CalledIds, f \in {"none", "engineUnload"} : CallUnloadWallet(id, f)
  \/ \E id \in CalledIds, pw \in Passwords, f \in DeleteFailures : CallDeleteWallet(id, pw, f)
  \/ \E id \in CalledIds : CallSetActiveWallet(id, "none")

SpecWalletOps == InitWallet /\ [][NextWalletOps]_vars

\* WalletManager with every operation that loads or needs a loaded wallet
NextLoaded ==
  \/ \E m \in Mnemonics, pw \in Passwords, s \in Salts, f \in CreateFailures :
        CallCreateWallet(m, pw, 0, s, f)
  \/ \E id \in CalledIds, pw \in Passwords, f \in {"none", "engineLoad"} :
        CallLoadWallet(id, pw, f)
  \/ \E id \in CalledIds, f \in {"none", "engineUnload"} : CallUnloadWallet(id, f)
  \/ \E id \in CalledIds, pw \in Passwords, f \in DeleteFailures : CallDeleteWallet(id, pw, f)
  \/ \E id \in CalledIds, pw \in Passwords, f \in {"none", "engineLoad", "engineMnemonic"} :
        CallExportMnemonic(id, pw, f)
  \/ \E id \in CalledIds, f \in {"none", "engineViewingKey"} : CallGetViewingKey(id, f)

SpecLoaded == InitWallet /\ [][NextLoaded]_vars

\* C35: after every completed create, load, unload, delete, exportMnemonic or
\* getViewingKey call, returned or thrown, isWalletLoaded(id) is true exactly
\* for the wallets the engine holds loaded.
C35_LoadedMatchesEngine ==
  lastW.op \in {"createWallet", "loadWallet", "unloadWallet", "deleteWallet",
                "exportMnemonic", "getViewingKey"} =>
    \A id \in WalletIds : isWalletLoaded(loadedWallets, id) <=> engineWallets[id].loaded

(* wallets.json on disk and Storage.cachedData ---------------------------*)
\* In the specifications above the file is always readable and nobody reads
\* the cache; SpecFile lets the file go missing, unreadable or corrupt.
FileStates == {"ok", "missing", "unreadable", "invalid"}
EmptyCatalog == [wallets |-> <<>>, activeWalletId |-> NoWallet]
Cached(cat) == [cached |-> TRUE, data |-> cat]
nonFileVars == <<netVars, task, last, scanVars, replVars,
                 salts, loadedWallets, engineWallets, find, added, derived>>

\* A slip: the failure of readFile / JSON.parse is not caught.
readWalletDataUncaught(fs, cat) ==
  IF fs = "ok" THEN [ok |-> TRUE, data |-> cat] ELSE [ok |-> FALSE, data |-> EmptyCatalog]

\* storage.ts:23-34: readFile or JSON.parse throws unless the file is ok, and
\* the catch returns the default data; what is returned is cached as well
readWalletData(fs, cat) ==
  IF fs = "ok" THEN [ok |-> TRUE, data |-> cat] ELSE [ok |-> TRUE, data |-> EmptyCatalog]

\* storage.ts:36-47: the cached data when there is any; the default data
\* returned by the catch is not cached
readWalletDataSync(cache, fs, cat) ==
  IF cache.cached THEN [ok |-> TRUE, data |-> cache.data, cache |-> cache]
  ELSE IF fs = "ok" THEN [ok |-> TRUE, data |-> cat, cache |-> Cached(cat)]
  ELSE [ok |-> TRUE, data |-> EmptyCatalog, cache |-> cache]

\* the call returns (or throws) to its caller
StorageCall(o, id, ok, calls, res) ==
  lastW' = [op |-> o, id |-> id, ok |-> ok, err |-> IF ok THEN "none" ELSE "io",
            calls |-> calls, result |-> res, pre |-> WalletState]

\* an asynchronous reader: readWalletData, then what it returns of the data
AsyncRead(o, id, res(_)) ==
  LET read == readWalletData(fileState, catalog)
  IN  /\ cachedData' = IF read.ok THEN Cached(read.data) ELSE cachedData
      /\ StorageCall(o, id, read.ok, <<"readFile">>, IF read.ok THEN res(read.data) ELSE <<>>)
      /\ UNCHANGED <<catalog, fileState, nonFileVars>>

\* a synchronous reader: readWalletDataSync, then what it returns of the data
SyncRead(o, res(_)) ==
  LET read == readWalletDataSync(cachedData, fileState, catalog)
  IN  /\ cachedData' = read.cache
      /\ StorageCall(o, NoWallet, read.ok,
                     IF cachedData.cached THEN <<>> ELSE <<"readFileSync">>, res(read.data))
      /\ UNCHANGED <<catalog, fileState, nonFileVars>>

\* storage.ts:49-54 after the caller changed the data it read, which is the
\* cached object: the file is replaced, or writeFile throws
WriteWalletData(o, id, data, writeFails) ==
  /\ cachedData' = Cached(data)
  /\ IF writeFails
     THEN UNCHANGED <<catalog, fileState>>
     ELSE catalog' = data /\ fileState' = "ok"
  /\ StorageCall(o, id, ~writeFails, <<"readFile", "writeFile">>, <<>>)
  /\ UNCHANGED nonFileVars

\* the call ends without writing: it returns, or throws
NoWrite(o, id, read, ok) ==
  /\ cachedData' = IF read.ok THEN Cached(read.data) ELSE cachedData
  /\ StorageCall(o, id, ok, <<"readFile">>, <<>>)
  /\ UNCHANGED <<catalog, fileState, nonFileVars>>

ReadWalletData == AsyncRead("readWalletData", NoWallet, LAMBDA data : <<data>>)
ReadWalletDataSync == SyncRead("readWalletDataSync", LAMBDA data : <<data>>)
GetActiveWallet == AsyncRead("getActiveWallet", NoWallet, getActiveWallet)
GetActiveWalletSync == SyncRead("getActiveWalletSync", getActiveWallet)
GetAllWallets == AsyncRead("getAllWallets", NoWallet, getAllWallets)
GetWalletById(id) == AsyncRead("getWalletById", id, LAMBDA data : getWalletById(data, id))

\* storage.ts:56-66
AddWallet(id, writeFails) ==
  LET read == readWalletData(fileState, catalog)
  IN  IF ~read.ok \/ CatalogHas(read.data, id)
      THEN NoWrite("addWallet", id, read, read.ok)
      ELSE WriteWalletData("addWallet", id, addWallet(read.data, id), writeFails)

\* storage.ts:68-75
RemoveWallet(id, writeFails) ==
  LET read == readWalletData(fileState, catalog)
  IN  IF ~read.ok
      THEN NoWrite("removeWallet", id, read, FALSE)
      ELSE WriteWalletData("removeWallet", id, removeWallet(read.data, id), writeFails)

\* storage.ts:89-97
SetActiveWallet(id, writeFails) ==
  LET read == readWalletData(fileState, catalog)
      set == setActiveWallet(read.data, id)
  IN  IF ~read.ok \/ ~set.ok
      THEN NoWrite("setActiveWallet", id, read, FALSE)
      ELSE WriteWalletData("setActiveWallet", id, set.cat, writeFails)

\* something outside the process removes, locks, restores or corrupts the
\* file (a transient I/O error is the file unreadable for one call)
FileBecomes(fs) ==
  /\ fs # fileState
  /\ fileState' = fs
  /\ catalog' = IF fs \in {"missing", "invalid"} THEN EmptyCatalog ELSE catalog
  /\ lastW' = NoWalletCall
  /\ UNCHANGED <<cachedData, nonFileVars>>

NextFile ==
  \/ ReadWalletData
  \/ ReadWalletDataSync
  \/ GetActiveWallet
  \/ GetActiveWalletSync
  \/ GetAllWallets
  \/ \E id \in CalledIds : GetWalletById(id)
  \/ \E id \in CalledIds, writeFails \in BOOLEAN : AddWallet(id, writeFails)
  \/ \E id \in CalledIds, writeFails \in BOOLEAN : RemoveWallet(id, writeFails)
  \/ \E id \in CalledIds, writeFails \in BOOLEAN : SetActiveWallet(id, writeFails)
  \/ \E fs \in FileStates : FileBecomes(fs)

SpecFile == InitWallet /\ [][NextFile]_vars

AsyncReaders == {"readWalletData", "getActiveWallet", "getAllWallets", "getWalletById"}
SyncReaders == {"readWalletDataSync", "getActiveWalletSync"}
\* what a reader returns of the empty catalog
NothingRead == IF lastW.op \in {"readWalletData", "readWalletDataSync"}
               THEN <<EmptyCatalog>> ELSE <<>>
\* what a synchronous reader returns of the cached catalog
CacheRead == IF lastW.op = "readWalletDataSync"
             THEN <<cachedData.data>> ELSE getActiveWallet(cachedData.data)

\* C31 as stated: no reader of the catalog raises an error, and while the
\* file is missing, unreadable or not valid JSON readWalletData and
\* readWalletDataSync return the empty catalog and the getters no wallet.
C31_ReadReturnsEmpty ==
  lastW.op \in AsyncReaders \cup SyncReaders =>
    /\ lastW.ok
    /\ fileState # "ok" => lastW.result = NothingRead

\* C31, amended: no reader of the catalog raises an error; while the file is
\* missing, unreadable or not valid JSON the asynchronous readers return the
\* empty catalog (no wallet), and the synchronous readers return the cached
\* catalog when a catalog is cached and the empty catalog otherwise.
C31_ReadNeverFails ==
  /\ lastW.op \in AsyncReaders =>
       /\ lastW.ok
       /\ fileState # "ok" => lastW.result = NothingRead
  /\ lastW.op \in SyncReaders =>
       /\ lastW.ok
       /\ fileState # "ok" =>
            lastW.result = IF cachedData.cached THEN CacheRead ELSE NothingRead

\* every reader has returned with the file missing, unreadable or corrupt:
\* here readWalletDataSync, which read nothing and had nothing cached
C31_Witness ==
  /\ lastW.op = "readWalletDataSync"
  /\ fileState = "invalid"
  /\ ~cachedData.cached
  /\ lastW.ok
  /\ lastW.result = <<EmptyCatalog>>

\* C36: after addWallet, removeWallet or setActiveWallet completes, every
\* record that was in the file before the call, the removed one excepted, is
\* still in the file, also when the read at the start of the call failed.
C36_MutationKeepsOthers ==
  lastW.op \in {"addWallet", "removeWallet", "setActiveWallet"} =>
    \A i \in 1..Len(lastW.pre.catalog.wallets) :
      LET w == lastW.pre.catalog.wallets[i]
      IN  (lastW.op = "removeWallet" /\ w = lastW.id) \/ CatalogHas(catalog, w)

(* deriveEncryptionKey and its optional salt -----------------------------*)
\* the salt argument left out
Undefined == "undefined"
SaltArguments == Salts \cup {"", Undefined}

\* crypto.ts:7, salt || randomBytes(16).toString('hex'): undefined and ''
\* are falsy; random is what randomBytes returns when it is called
useSalt(salt, random) == IF salt = Undefined \/ salt = "" THEN random ELSE salt

\* crypto.ts:6-10 as its callers may call it
deriveEncryptionKeyOptional(password, salt, random) ==
  deriveEncryptionKey(password, useSalt(salt, random))

\* a call of deriveEncryptionKey returns; the last two calls are kept
DeriveEncryptionKeyCall(password, salt, random) ==
  /\ derived' = Append(IF Len(derived) = 2 THEN Tail(derived) ELSE derived,
                       [password |-> password, salt |-> salt,
                        result |-> deriveEncryptionKeyOptional(password, salt, random)])
  /\ UNCHANGED <<netVars, task, last, scanVars, replVars, walletVars, fileVars>>

NextDerive ==
  \E password \in Passwords, salt \in SaltArguments, random \in Salts :
    DeriveEncryptionKeyCall(password, salt, random)

SpecDerive == InitWallet /\ [][NextDerive]_vars

\* C32: two calls with the same password and the same supplied salt, the
\* empty string included, return the same key, and a call with a supplied
\* salt returns that salt; only a call without salt argument draws a salt.
C32_DeriveIsDeterministic ==
  \A i, j \in DOMAIN derived :
    (derived[i].salt # Undefined /\ derived[i].password = derived[j].password
       /\ derived[i].salt = derived[j].salt) =>
      /\ derived[i].result.key = derived[j].result.key
      /\ derived[i].result.salt = derived[i].salt

\* C13: activeWalletId is null or the id of a record in the catalog; a
\* removal of the active wallet makes a remaining wallet active, or none when
\* the catalog is left empty, and a removal of another wallet keeps it.
C13_ActiveWalletIsPresent ==
  /\ catalog.activeWalletId = NoWallet \/ CatalogHas(catalog, catalog.activeWalletId)
  /\ (lastW.op \in {"removeWallet", "deleteWallet"} /\ lastW.ok) =>
       IF lastW.pre.catalog.activeWalletId = lastW.id
       THEN IF Len(catalog.wallets) = 0
            THEN catalog.activeWalletId = NoWallet
            ELSE CatalogHas(catalog, catalog.activeWalletId)
       ELSE catalog.activeWalletId = lastW.pre.catalog.activeWalletId

\* the active wallet was removed while another record remained
C13_Witness ==
  /\ lastW.op = "removeWallet"
  /\ lastW.ok
  /\ lastW.pre.catalog.activeWalletId = lastW.id
  /\ Len(catalog.wallets) > 0
  /\ catalog.activeWalletId # lastW.id

\* C14: getWalletById(id) returns a record exactly when id has been added
\* and not removed since, getAllWallets holds each such id exactly once, and
\* adding an id that is present changes nothing.
C14_CatalogIsWhatWasAdded ==
  /\ \A id \in WalletIds : (getWalletById(catalog, id) # <<>>) <=> (id \in added)
  /\ \A id \in added : Len(SelectSeq(getAllWallets(catalog), LAMBDA w : w = id)) = 1
  /\ lastW.op = "getWalletById" =>
       lastW.result = (IF lastW.id \in added THEN <<lastW.id>> ELSE <<>>)
  /\ (lastW.op = "addWallet" /\ lastW.ok /\ lastW.id \in lastW.pre.added) =>
       catalog = lastW.pre.catalog

\* an id that was not present was added behind another, active, record
C14_Witness ==
  /\ lastW.op = "addWallet"
  /\ lastW.ok
  /\ lastW.id \notin lastW.pre.added
  /\ Len(catalog.wallets) = 2
  /\ catalog.wallets[2] = lastW.id
  /\ catalog.activeWalletId # lastW.id

\* C15: setActiveWallet of an id without a record throws 'Wallet not found',
\* writes nothing and leaves the catalog and activeWalletId as they were; of
\* an id with a record it succeeds and getActiveWallet then returns that record.
C15_SetActiveWallet ==
  lastW.op = "setActiveWallet" =>
    /\ ~CatalogHas(lastW.pre.catalog, lastW.id) =>
         /\ ~lastW.ok
         /\ lastW.err = "Wallet not found"
         /\ lastW.calls = <<>>
         /\ catalog = lastW.pre.catalog
    /\ lastW.ok =>
         /\ CatalogHas(lastW.pre.catalog, lastW.id)
         /\ getActiveWallet(catalog) = <<lastW.id>>

\* a wallet that was not the active one has been made active
C15_Witness ==
  /\ lastW.op = "setActiveWallet"
  /\ lastW.ok
  /\ lastW.pre.catalog.activeWalletId # lastW.id
  /\ getActiveWallet(catalog) = <<lastW.id>>

Creations == {"createWallet", "createViewOnlyWallet"}

MnemonicGiven(call) == call.id[1]

\* C17: createWallet with a mnemonic that fails validation throws 'Invalid
\* mnemonic phrase' before any engine call, and leaves the catalog with its
\* active wallet, the stored salts and the loaded wallets unchanged.
C17_InvalidMnemonicRejected ==
  (lastW.op = "createWallet" /\ MnemonicGiven(lastW) \in InvalidMnemonics) =>
    /\ ~lastW.ok
    /\ lastW.err = "Invalid mnemonic phrase"
    /\ lastW.calls = <<>>
    /\ catalog = lastW.pre.catalog
    /\ salts = lastW.pre.salts
    /\ loadedWallets = lastW.pre.loadedWallets
    /\ engineWallets = lastW.pre.engineWallets

\* an invalid mnemonic was rejected in a session that has a loaded wallet
C17_Witness ==
  /\ lastW.op = "createWallet"
  /\ MnemonicGiven(lastW) \in InvalidMnemonics
  /\ ~lastW.ok
  /\ \E id \in WalletIds : CatalogHas(catalog, id) /\ isWalletLoaded(loadedWallets, id)

\* the messages of the errors that say a wallet, or its salt, was not found
NotFoundErrors == {"Wallet not found", "Encryption salt not found for wallet"}

\* C18: loadWallet(id, password) fails with a not-found error, without calling
\* the engine, when the catalog has no record for id or no salt is stored for
\* id; and whenever loadWallet fails, for any reason (a rejected key included),
\* the loaded wallets and their in-memory keys are as they were.
C18_FailedLoadChangesNothing ==
  lastW.op = "loadWallet" =>
    /\ (~CatalogHas(lastW.pre.catalog, lastW.id) \/ lastW.pre.salts[lastW.id] = NoSalt) =>
         (~lastW.ok /\ lastW.err \in NotFoundErrors /\ lastW.calls = <<>>)
    /\ ~lastW.ok => loadedWallets = lastW.pre.loadedWallets

\* the engine rejected a load of a stored, unloaded wallet while another
\* wallet was loaded
C18_Witness ==
  /\ lastW.op = "loadWallet"
  /\ ~lastW.ok
  /\ lastW.err = EngineError
  /\ lastW.pre.engineWallets[lastW.id].exists
  /\ ~lastW.pre.engineWallets[lastW.id].loaded
  /\ \E id \in WalletIds : id # lastW.id /\ isWalletLoaded(loadedWallets, id)

\* C19: unloadWallet(id) on a wallet that is not loaded makes no engine call
\* and changes no state; on a loaded wallet it tells the engine to unload it,
\* and once it has returned isWalletLoaded(id) is false and
\* getWalletEncryptionKey(id) is null, while every other loaded wallet and the
\* catalog are as they were.
C19_UnloadWallet ==
  lastW.op = "unloadWallet" =>
    IF ~isWalletLoaded(lastW.pre.loadedWallets, lastW.id)
    THEN /\ lastW.ok
         /\ lastW.calls = <<>>
         /\ catalog = lastW.pre.catalog
         /\ salts = lastW.pre.salts
         /\ loadedWallets = lastW.pre.loadedWallets
         /\ engineWallets = lastW.pre.engineWallets
    ELSE /\ lastW.calls = <<"unloadWalletByID">>
         /\ catalog = lastW.pre.catalog
         /\ \A id \in WalletIds \ {lastW.id} : loadedWallets[id] = lastW.pre.loadedWallets[id]
         /\ lastW.ok =>
              /\ ~isWalletLoaded(loadedWallets, lastW.id)
              /\ getWalletEncryptionKey(loadedWallets, lastW.id) = NULL
              /\ ~engineWallets[lastW.id].loaded

\* a loaded wallet was unloaded while another wallet stayed loaded
C19_Witness ==
  /\ lastW.op = "unloadWallet"
  /\ lastW.ok
  /\ isWalletLoaded(lastW.pre.loadedWallets, lastW.id)
  /\ \E id \in WalletIds \ {lastW.id} : isWalletLoaded(loadedWallets, id)

\* C20: in every state reached by create, load, unload and delete calls, a
\* wallet is reported loaded exactly when an in-memory encryption key is held
\* for it; and after a successful deleteWallet(id) neither a catalog record
\* nor an in-memory key for id remains.
C20_LoadedIffKeyHeld ==
  /\ \A id \in WalletIds :
       isWalletLoaded(loadedWallets, id) <=> (getWalletEncryptionKey(loadedWallets, id) # NULL)
  /\ (lastW.op = "deleteWallet" /\ lastW.ok) =>
       /\ getWalletById(catalog, lastW.id) = <<>>
       /\ ~isWalletLoaded(loadedWallets, lastW.id)
       /\ getWalletEncryptionKey(loadedWallets, lastW.id) = NULL

\* a loaded wallet with a record was deleted while another wallet stayed loaded
C20_Witness ==
  /\ lastW.op = "deleteWallet"
  /\ lastW.ok
  /\ CatalogHas(lastW.pre.catalog, lastW.id)
  /\ isWalletLoaded(lastW.pre.loadedWallets, lastW.id)
  /\ \E id \in WalletIds \ {lastW.id} : getWalletEncryptionKey(loadedWallets, id) # NULL

\* C21: deleteWallet(id, password) calls the engine's deleteWalletByID only
\* after its own loadWalletByID of id has succeeded; if the salt is missing or
\* that load fails, deleteWalletByID is never called and the catalog with its
\* active wallet and the loaded wallets are as they were.
C21_DeleteOnlyAfterLoad ==
  lastW.op = "deleteWallet" =>
    /\ \A i \in DOMAIN lastW.calls :
         lastW.calls[i] = "deleteWalletByID" => (i = 2 /\ lastW.calls[1] = "loadWalletByID")
    /\ lastW.pre.salts[lastW.id] = NoSalt =>
         (~lastW.ok /\ lastW.err = "Wallet not found" /\ lastW.calls = <<>>)
    /\ (~lastW.ok /\ Len(lastW.calls) < 2) =>
         /\ catalog = lastW.pre.catalog
         /\ loadedWallets = lastW.pre.loadedWallets
         /\ engineWallets = lastW.pre.engineWallets
    /\ lastW.ok =>
         /\ Len(lastW.calls) >= 2
         /\ SubSeq(lastW.calls, 1, 2) = <<"loadWalletByID", "deleteWalletByID">>
         /\ lastW.pre.engineWallets[lastW.id].exists

\* the engine rejected the load inside a deleteWallet of a stored, unloaded
\* wallet that has a record
C21_Witness ==
  /\ lastW.op = "deleteWallet"
  /\ ~lastW.ok
  /\ lastW.calls = <<"loadWalletByID">>
  /\ CatalogHas(catalog, lastW.id)
  /\ lastW.pre.engineWallets[lastW.id].exists
  /\ ~lastW.pre.engineWallets[lastW.id].loaded

\* C22: once a salt has been stored for a wallet id, no later create, import,
\* load, unload, find or delete changes the value stored for that id.
C22_SaltWrittenOnce ==
  [][\A id \in WalletIds : salts[id] # NoSalt => salts'[id] = salts[id]]_vars

\* loadWallet(id, password) would succeed in the session w
Loadable(w, id, password) ==
  /\ CatalogHas(w.catalog, id)
  /\ w.salts[id] # NoSalt
  /\ EngineCanLoad(w.engineWallets, deriveEncryptionKey(password, w.salts[id]).key, id)

\* C34: when wallet find has run its last iteration, every wallet that was
\* in the catalog before the command is still there with the salt it had,
\* loads with every password it loaded with, and the active wallet is the
\* one that was active, also when a probed index is a wallet of the catalog.
C34_FindChangesNothing ==
  (find.pc = "loop" /\ find.i = find.numIndices) =>
    /\ find.pre.catalog.activeWalletId # NoWallet =>
         catalog.activeWalletId = find.pre.catalog.activeWalletId
    /\ \A id \in find.before :
         /\ CatalogHas(catalog, id)
         /\ salts[id] = find.pre.salts[id]
         /\ \A pw \in Passwords : Loadable(find.pre, id, pw) => Loadable(WalletState, id, pw)

\* the ids the probe has tried so far
Probed == {WalletIdOf(find.mnemonic, i) : i \in 0..find.i - 1}

\* C8: when wallet find completes, no wallet record that the probe created is
\* left in the catalog, and none is left in the loaded set
C8_FindLeavesNoOrphan ==
  (find.pc = "loop" /\ find.i = find.numIndices) =>
    \A id \in Probed \ find.before :
      ~CatalogHas(catalog, id) /\ ~isWalletLoaded(loadedWallets, id)

(***************************************************************************)
(* The scan tracker and the sync command with one network connected, or   *)
(* none.                                                                   *)
(***************************************************************************)
InitScan ==
  /\ \E n \in {"Ethereum", "Polygon", NULL} :
       /\ activeNetwork = n
       /\ loadedNetworks = IF n = NULL THEN <<>> ELSE <<n>>
       /\ providers = IF n = NULL THEN NoProviders ELSE loadProvider(NoProviders, n)
  /\ task = [t \in Tasks |-> IdleTask]
  /\ last = NoCall
  /\ InitScanVars
  /\ InitWalletVars
  /\ InitReplVars

NextScan ==
  \/ \E c \in ScanChains, e \in ScanEvents : defaultUTXOMerkletreeScanCallback(c, e[1], e[2])
  \/ \E c \in ScanChains, e \in ScanEvents : defaultTXIDMerkletreeScanCallback(c, e[1], e[2])
  \/ \E w \in BOOLEAN : SyncCommand(w)
  \/ SyncPoll

SpecScan == InitScan /\ [][NextScan]_vars

\* the timer of repl.ts:709 always fires in the end
SpecScanFair == SpecScan /\ WF_vars(SyncPoll)

\* the chain the sync command has just reported on
ReportedChain == NETWORK_CONFIGS[activeNetwork].chainId

\* C5: once the UTXO track of a chain is Complete, it stays Complete under any
\* further progress event (there is no reset operation)
C5_CompleteIsStable ==
  [][\A c \in ScanChains : isUTXOScanComplete(c) => isUTXOScanComplete(c)']_vars

\* C6: isUTXOScanComplete(chainId) is true only if a UTXO Complete event was
\* delivered for that chain; not for a chain without events, with TXID events
\* only, or with UTXO events other than Complete only
C6_CompleteOnlyAfterEvent ==
  \A c \in ScanChains :
    /\ isUTXOScanComplete(c) => "utxoComplete" \in delivered[c]
    /\ delivered[c] = {} => ~isUTXOScanComplete(c)
    /\ delivered[c] \subseteq {"txidComplete", "txidOther"} => ~isUTXOScanComplete(c)
    /\ delivered[c] \subseteq {"utxoOther", "txidComplete", "txidOther"} => ~isUTXOScanComplete(c)

\* a chain whose only events are TXID events, a Complete one among them
C6_Witness ==
  \E c \in ScanChains :
    /\ delivered[c] = {"txidComplete", "txidOther"}
    /\ scanStates[c].present
    /\ scanStates[c].txidStatus = "Complete"
    /\ ~isUTXOScanComplete(c)

\* C7 as stated: sync reports synced only when the UTXO track reports Complete
C7_SyncedOnlyIfComplete ==
  syncOut \in SyncedMessages => isUTXOScanComplete(ReportedChain)

\* C7, amended: sync reports synced only when the UTXO track of the active
\* network's chain reports Complete, or when no scan state exists for that chain
C7_SyncedOnlyIfCompleteOrNoState ==
  syncOut \in SyncedMessages =>
    \/ isUTXOScanComplete(ReportedChain)
    \/ (syncOut = "appearsSynced" /\ ~getScanState(ReportedChain).present)

\* sync reports 'complete' for a chain whose TXID track is not complete
C7_Witness ==
  /\ syncOut = "syncComplete"
  /\ isUTXOScanComplete(ReportedChain)
  /\ getScanState(ReportedChain).txidStatus # "Complete"

(***************************************************************************)
(* The ProviderManager under a caller that makes one call at a time.       *)
(***************************************************************************)
InitNet ==
  /\ loadedNetworks = <<>>
  /\ activeNetwork = NULL
  /\ providers = NoProviders
  /\ task = [t \in Tasks |-> IdleTask]
  /\ last = NoCall
  /\ InitScanVars
  /\ InitWalletVars
  /\ InitReplVars

NextNet ==
  \/ \E n \in NetworkNames : LoadNetworkCall(Main, n)
  \/ \E n \in NetworkNames : SwitchNetworkCall(Main, n)
  \/ \E n \in NetworkNames : UnloadNetworkCall(Main, n)
  \/ UnloadAllCall(Main)
  \/ LoadProviderReturns(Main)
  \/ LoadProviderThrows(Main)
  \/ SwitchNetworkResume(Main)
  \/ UnloadProviderReturns(Main)
  \/ UnloadProviderThrows(Main)
  \/ UnloadAllNext(Main)

SpecNet == InitNet /\ [][NextNet]_vars

Quiescent == task[Main].pc = "idle"
JustReturned(o, outcome) == Quiescent /\ last.op = o /\ last.outcome = outcome

\* C1: once a call has returned (having succeeded or failed), activeNetwork is
\* null or a member of loadedNetworks
C1_ActiveIsLoaded ==
  Quiescent => (activeNetwork = NULL \/ SetHas(loadedNetworks, activeNetwork))

\* the active network was unloaded while another stayed connected, and the call returned
C1_Witness ==
  /\ JustReturned("unloadNetwork", "ok")
  /\ last.pre.active = last.arg
  /\ activeNetwork # NULL
  /\ SetHas(loadedNetworks, activeNetwork)

\* C9: after a successful switchNetwork(X), X is loaded and active, every other
\* connected network's polling is paused, X's polling runs, and an X that was not
\* connected was loaded in the engine before the pause/resume step
C9_SwitchPost ==
  JustReturned("switchNetwork", "ok") =>
    LET X == last.arg
    IN  /\ SetHas(loadedNetworks, X)
        /\ activeNetwork = X
        /\ \A m \in SetMembers(loadedNetworks) \ {X} : providers[m] = "paused"
        /\ providers[X] = "polling"
        /\ ~SetHas(last.pre.loaded, X) =>
             last.calls = << <<"loadProvider", X>> >> \o SwitchCalls(X)
        /\ SetHas(last.pre.loaded, X) => last.calls = SwitchCalls(X)

\* a switch to a network that had to be connected, with another one connected
C9_Witness ==
  /\ JustReturned("switchNetwork", "ok")
  /\ ~SetHas(last.pre.loaded, last.arg)
  /\ Len(loadedNetworks) >= 2
  /\ \E m \in SetMembers(last.pre.loaded) : last.pre.providers[m] = "polling"

\* C10: after a successful unloadNetwork(N) of a connected N, N is not connected;
\* an active N is replaced by a member of the remaining set, or by null when
\* none remains; otherwise the active network is unchanged
C10_UnloadPost ==
  (JustReturned("unloadNetwork", "ok") /\ SetHas(last.pre.loaded, last.arg)) =>
    LET N == last.arg
        remaining == SetMembers(last.pre.loaded) \ {N}
    IN  /\ ~SetHas(loadedNetworks, N)
        /\ SetMembers(loadedNetworks) = remaining
        /\ last.pre.active = N =>
             IF remaining = {} THEN activeNetwork = NULL ELSE activeNetwork \in remaining
        /\ last.pre.active # N => activeNetwork = last.pre.active
        /\ (last.pre.loaded = <<"Ethereum", "Polygon">> /\ last.pre.active = "Polygon"
              /\ N = "Polygon") => activeNetwork = "Ethereum"

\* switchNetwork(A), switchNetwork(B), unloadNetwork(B): A is active again
C10_Witness ==
  /\ JustReturned("unloadNetwork", "ok")
  /\ last.pre.loaded = <<"Ethereum", "Polygon">>
  /\ last.pre.active = "Polygon"
  /\ last.arg = "Polygon"
  /\ activeNetwork = "Ethereum"

\* C11: loadNetwork of a connected network, and unloadNetwork of a network
\* that is not connected, make no engine call and leave the connected set,
\* the active network and the engine's providers as they were.
C11_NoOpCalls ==
  /\ (JustReturned("loadNetwork", "ok") /\ SetHas(last.pre.loaded, last.arg)) =>
        (last.calls = <<>> /\ Snapshot = last.pre)
  /\ (JustReturned("unloadNetwork", "ok") /\ ~SetHas(last.pre.loaded, last.arg)) =>
        (last.calls = <<>> /\ Snapshot = last.pre)

\* loadNetwork returned for a network that was connected but not the active one
C11_Witness ==
  /\ JustReturned("loadNetwork", "ok")
  /\ SetHas(last.pre.loaded, last.arg)
  /\ last.pre.active # last.arg
  /\ activeNetwork # last.arg

IsPollingCall(c) == c[1] \in {"pauseAllPollingProviders", "resumeIsolatedPollingProviderForNetwork"}

\* C12: a loadNetwork or switchNetwork that throws leaves the connected set
\* and the active network unchanged; for an unsupported name it makes no
\* engine call, and a failed switchNetwork pauses and resumes no polling.
C12_FailedCallChangesNothing ==
  \A o \in {"loadNetwork", "switchNetwork"} :
    JustReturned(o, "threw") =>
      /\ loadedNetworks = last.pre.loaded
      /\ activeNetwork = last.pre.active
      /\ getFallbackProviderConfig(last.arg).isNull => last.calls = <<>>
      /\ o = "switchNetwork" =>
           /\ providers = last.pre.providers
           /\ \A i \in DOMAIN last.calls : ~IsPollingCall(last.calls[i])

\* switchNetwork threw because the engine's loadProvider rejected, with
\* another network connected and active
C12_Witness ==
  /\ JustReturned("switchNetwork", "threw")
  /\ last.calls = << <<"loadProvider", last.arg>> >>
  /\ last.pre.active # NULL
  /\ \E n \in NetworkNames : providers[n] = "polling"

(***************************************************************************)
(* The REPL process: runREPL (repl.ts:998-1056), the SIGINT handler of     *)
(* startREPL (repl.ts:1059-1068), the cleanup handler that main registers  *)
(* for SIGINT and SIGTERM before it starts the REPL (cli/index.ts 100-108) *)
(* and shutdownEngine (engine.ts:188-204).  An await of an engine call is  *)
(* a point where the other call chains may run.  An await of a promise     *)
(* that is already settled resumes in a microtask, before any signal,      *)
(* input or engine completion is dispatched, so it belongs to the step     *)
(* that reached it.  cleanup works on main's own ProviderManager, which    *)
(* never has a network loaded; the REPL paths work on ctx.providerManager. *)
(***************************************************************************)
Signals == {"SIGINT", "SIGTERM"}
ReplNetworks == {"Ethereum", "Polygon"}
Alive == exited = "no"

ShutdownTask == [pc |-> "idle", op |-> "shutdown", arg |-> NULL, iter |-> 0,
                 calls |-> <<>>, pre |-> NoSnapshot]
Suspended(tk) == [tk |-> tk, exit |-> FALSE]

\* engine.ts:189-193   await shutdownEngine() up to its first await; when the
\* engine is not initialized it returns at once and process.exit(0) follows
\* (repl.ts:1022-1023, 1050-1051, 1065-1067, cli/index.ts:102-103)
shutdownEngine(tk, t) ==
  IF engineInitialized
  THEN Suspended([Called(tk, t, <<"stopRailgunEngine", NULL>>)
                    EXCEPT ![t].pc = "stopRailgunEngine"])
  ELSE [tk |-> [tk EXCEPT ![t].pc = "exit"], exit |-> TRUE]

\* provider-manager.ts:121-122   the for-of step of unloadAll in a teardown;
\* when the loop ends the caller goes on to shutdownEngine
unloadAllThenShutdown(tk, t) ==
  LET s == UnloadAllStep(t, tk)
  IN  IF s[t].pc = "unloadAllDone" THEN shutdownEngine(s, t) ELSE Suspended(s)

\* repl.ts:1021,1049,1064   await ctx.providerManager.unloadAll()
ShutdownBegin(tk, t) == unloadAllThenShutdown([tk EXCEPT ![t] = ShutdownTask], t)

\* cli/index.ts:100-103   cleanup: unloadAll on main's ProviderManager has
\* nothing to iterate
cleanup(tk, c) == shutdownEngine([tk EXCEPT ![c] = ShutdownTask], c)

Exit(r) == exited' = IF r.exit THEN "0" ELSE exited

\* repl.ts:1018-1023   the exit command
ReplExit ==
  /\ Alive
  /\ task[Main].pc = "idle"
  /\ running' = FALSE
  /\ LET r == ShutdownBegin(task, Main)
     IN  task' = r.tk /\ Exit(r)
  /\ last' = NoCall
  /\ UNCHANGED <<netVars, scanVars, walletVars, cliVars, utilVars, engineInitialized, dbInstance, signals>>

\* repl.ts:1045-1051   the prompt rejects with ExitPromptError / 'closed'
ReplPromptClosed ==
  /\ Alive
  /\ task[Main].pc = "idle"
  /\ running' = FALSE
  /\ LET r == ShutdownBegin(task, Main)
     IN  task' = r.tk /\ Exit(r)
  /\ last' = NoCall
  /\ UNCHANGED <<netVars, scanVars, walletVars, cliVars, utilVars, engineInitialized, dbInstance, signals>>

\* repl.ts:541-571   network connect <name>
ReplNetworkConnect(n) ==
  /\ Alive
  /\ n \in getSupportedNetworks
  /\ LoadNetworkCall(Main, n)

\* repl.ts:579-609   network disconnect <name>
ReplNetworkDisconnect(n) ==
  /\ Alive
  /\ SetHas(loadedNetworks, n)
  /\ UnloadNetworkCall(Main, n)

\* repl.ts:617-643   network switch <name>
ReplNetworkSwitch(n) ==
  /\ Alive
  /\ SwitchNetworkCall(Main, n)

\* A slip: no handler is registered for SIGTERM.
SignalHandlersSigintOnly(sig, tk) ==
  IF sig = "SIGINT" THEN cleanup(tk, <<"cleanup", signals + 1>>) ELSE Suspended(tk)

\* cli/index.ts:107-108   process.on('SIGINT', cleanup); process.on('SIGTERM', cleanup)
SignalHandlers(sig, tk) == cleanup(tk, <<"cleanup", signals + 1>>)

\* A signal is delivered: the listeners run in registration order, each up to
\* its first pending await.  cleanup was registered first; the REPL's SIGINT
\* handler (repl.ts:1059-1068) tears down only if running is still set and
\* otherwise calls process.exit(0) in the listener itself.
Signal(sig) ==
  /\ Alive
  /\ signals < MaxSignals
  /\ signals' = signals + 1
  /\ LET c == SignalHandlers(sig, task)
     IN  IF sig = "SIGINT"
         THEN IF running
              THEN LET r == ShutdownBegin(c.tk, SigintTask)
                   IN  /\ running' = FALSE
                       /\ task' = r.tk
                       /\ exited' = IF c.exit \/ r.exit THEN "0" ELSE exited
              ELSE /\ task' = c.tk
                   /\ exited' = "0"
                   /\ running' = running
         ELSE /\ task' = c.tk
              /\ Exit(c)
              /\ running' = running
  /\ last' = NoCall
  /\ UNCHANGED <<netVars, scanVars, walletVars, cliVars, utilVars, engineInitialized, dbInstance>>

\* The REPL's own command, resumed after its engine call
ReplLoadProviderReturns ==
  /\ Alive
  /\ LoadProviderReturns(Main)

ReplSwitchNetworkResume ==
  /\ Alive
  /\ SwitchNetworkResume(Main)

\* provider-manager.ts:64-71 after the await, in a command or in a teardown
ReplUnloadProviderReturns(t) ==
  /\ Alive
  /\ UnloadProviderReturns(t)

\* provider-manager.ts:121 after the await of line 122, in a teardown
ShutdownUnloadAllNext(t) ==
  /\ Alive
  /\ task[t].pc = "unloadAllNext"
  /\ task[t].op = "shutdown"
  /\ LET r == unloadAllThenShutdown(task, t)
     IN  task' = r.tk /\ Exit(r)
  /\ UNCHANGED <<netVars, last, scanVars, walletVars, cliVars, utilVars, running, engineInitialized,
                 dbInstance, signals>>

\* engine.ts:193-203   stopRailgunEngine resolved; without a database
\* shutdownEngine returns and process.exit(0) follows
StopRailgunEngineReturns(t) ==
  /\ Alive
  /\ task[t].pc = "stopRailgunEngine"
  /\ IF dbInstance # NULL
     THEN /\ task' = [Called(task, t, <<"dbInstance.close", NULL>>)
                        EXCEPT ![t].pc = "dbInstance.close"]
          /\ UNCHANGED <<engineInitialized, exited>>
     ELSE /\ task' = [task EXCEPT ![t].pc = "exit"]
          /\ engineInitialized' = FALSE
          /\ exited' = "0"
  /\ UNCHANGED <<netVars, last, scanVars, walletVars, cliVars, utilVars, running, dbInstance, signals>>

\* A slip: the process.exit(0) after await shutdownEngine() is missing.
DbCloseReturnsNoExit(t) ==
  /\ Alive
  /\ task[t].pc = "dbInstance.close"
  /\ dbInstance' = NULL
  /\ engineInitialized' = FALSE
  /\ task' = [task EXCEPT ![t].pc = "exit"]
  /\ UNCHANGED <<netVars, last, scanVars, walletVars, cliVars, utilVars, running, signals, exited>>

\* engine.ts:196-203   dbInstance.close() resolved; shutdownEngine returns and
\* process.exit(0) follows
DbCloseReturns(t) ==
  /\ Alive
  /\ task[t].pc = "dbInstance.close"
  /\ dbInstance' = NULL
  /\ engineInitialized' = FALSE
  /\ task' = [task EXCEPT ![t].pc = "exit"]
  /\ exited' = "0"
  /\ UNCHANGED <<netVars, last, scanVars, walletVars, cliVars, utilVars, running, signals>>

\* startREPL has created the context and tried to connect to Ethereum
\* (repl.ts:969-996); runREPL is at its first prompt.
InitRepl ==
  /\ \E n \in {"Ethereum", NULL} :
       /\ activeNetwork = n
       /\ loadedNetworks = IF n = NULL THEN <<>> ELSE <<n>>
       /\ providers = IF n = NULL THEN NoProviders ELSE loadProvider(NoProviders, n)
  /\ task = [t \in Tasks |-> IdleTask]
  /\ last = NoCall
  /\ InitScanVars
  /\ InitWalletVars
  /\ InitReplVars

\* What a call chain does once the call it awaits has resolved
Progress(t) ==
  \/ ReplUnloadProviderReturns(t)
  \/ ShutdownUnloadAllNext(t)
  \/ StopRailgunEngineReturns(t)
  \/ DbCloseReturns(t)

NextRepl ==
  \/ ReplExit
  \/ ReplPromptClosed
  \/ \E n \in ReplNetworks : ReplNetworkConnect(n)
  \/ \E n \in ReplNetworks : ReplNetworkDisconnect(n)
  \/ \E n \in ReplNetworks \cup Unsupported : ReplNetworkSwitch(n)
  \/ \E sig \in Signals : Signal(sig)
  \/ ReplLoadProviderReturns
  \/ ReplSwitchNetworkResume
  \/ \E t \in Tasks : ReplUnloadProviderReturns(t)
  \/ \E t \in Tasks : ShutdownUnloadAllNext(t)
  \/ \E t \in Tasks : StopRailgunEngineReturns(t)
  \/ \E t \in Tasks : DbCloseReturns(t)

SpecRepl == InitRepl /\ [][NextRepl]_vars

\* The event loop resumes every call chain whose awaited engine call has
\* resolved, and the engine calls of a teardown resolve.
SpecReplFair == SpecRepl /\ \A t \in Tasks : WF_vars(Progress(t))

\* A teardown has begun: the REPL has cleared running, or a cleanup is under way
ShuttingDown == ~running \/ \E c \in CleanupTasks : task[c].op = "shutdown"

TeardownCalls(c) ==
  {x \in UNION {{<<t, i>> : i \in DOMAIN task[t].calls} : t \in Tasks} :
     task[x[1]].op = "shutdown" /\ task[x[1]].calls[x[2]] = c}

\* C2: over all interleavings of the exit command, signals and closure of the
\* input, the teardowns together call stopRailgunEngine at most once, close
\* the database at most once and unload no network provider twice.
C2_ShutdownAtMostOnce ==
  /\ Cardinality(TeardownCalls(<<"stopRailgunEngine", NULL>>)) <= 1
  /\ Cardinality(TeardownCalls(<<"dbInstance.close", NULL>>)) <= 1
  /\ \A n \in NetworkNames : Cardinality(TeardownCalls(<<"unloadProvider", n>>)) <= 1

\* C3: when process.exit has been called, no teardown is still inside its
\* unloadAll and the engine has been shut down (stopped, database closed).
C3_TeardownBeforeExit ==
  exited # "no" =>
    /\ \A t \in Tasks : task[t].op = "shutdown" =>
                          task[t].pc \notin {"unloadProvider", "unloadAllNext"}
    /\ ~engineInitialized
    /\ dbInstance = NULL

(***************************************************************************)
(* The command line of the REPL: the registry of createCommands (repl.ts   *)
(* 144-876), parseInput and findCommand (repl.ts:888-925) and the body of  *)
(* the runREPL loop (repl.ts:1011-1042).  An input line is the sequence of *)
(* the tokens that input.trim().split(/\s+/) yields; a command name is the *)
(* sequence of its words, so that joining two tokens by one space equals a *)
(* name exactly when the two tokens are its two words.  What the handlers  *)
(* do to the wallets and the networks is modelled in the sections above;   *)
(* here a handler returns or throws.                                       *)
(***************************************************************************)
MaxTokens == 3
Tokens == {"wallet", "create", "balance", "refresh", "st", "bogus", "exit", "q", "Q", "now"}
Lines == UNION {[1..n -> Tokens] : n \in 0..MaxTokens}

Cmd(name, aliases) == [name |-> name, aliases |-> aliases]
\* repl.ts:149-876, in the order of the commands.push calls
commands ==
  << Cmd(<<"help">>, {<<"h">>, <<"?">>}),
     Cmd(<<"status">>, {<<"st">>}),
     Cmd(<<"clear">>, {<<"cls">>}),
     Cmd(<<"exit">>, {<<"quit">>, <<"q">>}),
     Cmd(<<"wallet", "create">>, {<<"wc">>}),
     Cmd(<<"wallet", "import">>, {<<"wi">>}),
     Cmd(<<"wallet", "list">>, {<<"wl">>}),
     Cmd(<<"wallet", "load">>, {<<"wload">>}),
     Cmd(<<"wallet", "use">>, {<<"wu">>}),
     Cmd(<<"wallet", "export">>, {<<"we">>}),
     Cmd(<<"wallet", "find">>, {<<"wf">>}),
     Cmd(<<"network", "list">>, {<<"nl">>}),
     Cmd(<<"network", "connect">>, {<<"nc">>}),
     Cmd(<<"network", "disconnect">>, {<<"nd">>}),
     Cmd(<<"network", "switch">>, {<<"ns">>}),
     Cmd(<<"sync">>, {<<"sy">>}),
     Cmd(<<"balance">>, {<<"bal">>, <<"b">>}),
     Cmd(<<"balance", "refresh">>, {<<"br">>}),
     Cmd(<<"history">>, {<<"hist">>}) >>

\* repl.ts:889-899
parseInput(input) ==
  IF Len(input) >= 2
  THEN [command |-> SubSeq(input, 1, 2), args |-> SubSeq(input, 3, Len(input))]
  ELSE [command |-> input, args |-> <<>>]

\* repl.ts:908-912, 918-922   for (const cmd of commands): the index of the
\* first command whose name or alias is the word, 0 when the loop ends
FirstCommand(word) ==
  LET hits == {i \in DOMAIN commands : commands[i].name = word \/ word \in commands[i].aliases}
  IN  IF hits = {} THEN 0 ELSE CHOOSE i \in hits : \A j \in hits : i <= j

NoMatch == [found |-> FALSE, cmd |-> <<>>, args |-> <<>>]
Match(i, args) == [found |-> TRUE, cmd |-> commands[i].name, args |-> args]

\* A slip: the first token is tried before the first two.
findCommandSingleFirst(input) ==
  LET p == parseInput(input)
  IN  IF p.command = <<>> THEN NoMatch
      ELSE IF FirstCommand(<<input[1]>>) # 0 THEN Match(FirstCommand(<<input[1]>>), Tail(input))
      ELSE IF FirstCommand(p.command) # 0 THEN Match(FirstCommand(p.command), p.args)
      ELSE NoMatch

\* repl.ts:902-925
findCommand(input) ==
  LET p == parseInput(input)
  IN  IF p.command = <<>> THEN NoMatch
      ELSE IF FirstCommand(p.command) # 0 THEN Match(FirstCommand(p.command), p.args)
      ELSE IF FirstCommand(<<input[1]>>) # 0 THEN Match(FirstCommand(<<input[1]>>), Tail(input))
      ELSE NoMatch

\* String.prototype.toLowerCase on the tokens in use
toLowerCase(token) == IF token = "Q" THEN "q" ELSE token

\* repl.ts:1018   ['exit', 'quit', 'q'].includes(trimmed.toLowerCase()); a
\* line of several tokens has white space in it and equals none of the three
IsExitLine(input) == Len(input) = 1 /\ toLowerCase(input[1]) \in {"exit", "quit", "q"}

\* A slip: what a handler throws reaches the outer catch, which shuts down.
runREPLBodyThrowShutsDown(input, handlerThrows) ==
  LET m == findCommand(input)
      o == IF input = <<>> THEN "empty"
           ELSE IF IsExitLine(input) THEN "exit"
           ELSE IF ~m.found THEN "unknown"
           ELSE IF handlerThrows /\ m.cmd # <<"exit">> THEN "threw"
           ELSE "ok"
  IN  [outcome |-> o, shutdown |-> o \in {"exit", "threw"}]

\* repl.ts:1011-1042   one pass of the loop body on the line read; the
\* handler of exit is empty (repl.ts:208-210) and cannot throw
runREPLBody(input, handlerThrows) ==
  LET m == findCommand(input)
      o == IF input = <<>> THEN "empty"
           ELSE IF IsExitLine(input) THEN "exit"
           ELSE IF ~m.found THEN "unknown"
           ELSE IF handlerThrows /\ m.cmd # <<"exit">> THEN "threw"
           ELSE "ok"
  IN  [outcome |-> o, shutdown |-> o = "exit"]

\* repl.ts:1003-1042   the prompt resolves with a line
ReplLine(input, handlerThrows) ==
  /\ Alive
  /\ task[Main].pc = "idle"
  /\ LET m == findCommand(input)
         b == runREPLBody(input, handlerThrows)
     IN  /\ cli' = [line |-> input, found |-> m.found, cmd |-> m.cmd, args |-> m.args,
                    outcome |-> b.outcome]
         /\ IF b.shutdown
            THEN /\ running' = FALSE
                 /\ LET r == ShutdownBegin(task, Main)
                    IN  task' = r.tk /\ Exit(r)
            ELSE UNCHANGED <<running, task, exited>>
  /\ last' = NoCall
  /\ UNCHANGED <<netVars, scanVars, walletVars, utilVars, engineInitialized, dbInstance,
               signals, shown>>

\* the lines typed at the prompt of a session: those of at most two tokens
TypedLines == {input \in Lines : Len(input) <= 2}

NextCli ==
  \/ \E input \in TypedLines, handlerThrows \in BOOLEAN : ReplLine(input, handlerThrows)
  \/ ReplUnloadProviderReturns(Main)
  \/ ShutdownUnloadAllNext(Main)
  \/ StopRailgunEngineReturns(Main)
  \/ DbCloseReturns(Main)

SpecCli == InitRepl /\ [][NextCli]_vars

(* findCommand as a function: a line has been typed, findCommand is applied. *)
FindCommandCall ==
  /\ cli.outcome = "typed"
  /\ LET m == findCommand(cli.line)
     IN  cli' = [line |-> cli.line, found |-> m.found, cmd |-> m.cmd, args |-> m.args,
                 outcome |-> "resolved"]
  /\ UNCHANGED <<netVars, task, last, scanVars, walletVars, running, exited,
                 engineInitialized, dbInstance, signals, shown, utilVars>>

InitParse ==
  /\ loadedNetworks = <<>>
  /\ activeNetwork = NULL
  /\ providers = NoProviders
  /\ task = [t \in Tasks |-> IdleTask]
  /\ last = NoCall
  /\ InitScanVars
  /\ InitWalletVars
  /\ InitProcessVars
  /\ \E input \in Lines : cli = [NoLine EXCEPT !.line = input, !.outcome = "typed"]
  /\ shown = NothingShown

SpecParse == InitParse /\ [][FindCommandCall]_vars

(***************************************************************************)
(* formatBalance, cli/repl.ts:879-886 and its copy in the one-shot         *)
(* commands, cli/commands/wallet.ts:619-627.  A bigint is the sequence of  *)
(* its decimal digits, most significant first and without leading zeros,   *)
(* which is also what toString returns; a string is the sequence of its    *)
(* characters.  The divisor BigInt(10 ** decimals) is exact for every      *)
(* decimals up to 22, so dividing by it drops the last `decimals` digits   *)
(* and the remainder is those digits.                                      *)
(***************************************************************************)
MaxDecimals == 18
MaxDigits == 2
DigitChars == <<"0", "1", "2", "3", "4", "5", "6", "7", "8", "9">>
Digit == {DigitChars[i] : i \in DOMAIN DigitChars}
Min(a, b) == IF a <= b THEN a ELSE b

\* the balances formatted: every amount of at most MaxDigits digits, and some
\* long ones
Balances ==
  {b \in UNION {[1..n -> Digit] : n \in 1..MaxDigits} : Len(b) = 1 \/ b[1] # "0"}
    \cup {<<"1", "2", "3", "4", "5", "6", "7", "8", "9", "0", "1", "2", "3", "4", "5", "6", "7", "8", "9">>,
          <<"1", "9", "9", "9", "9", "9", "9", "9", "9">>,
          <<"1", "0", "0", "0", "0", "0", "1">>,
          <<"1", "2", "3", "4", "5", "6", "7", "8", "9", "0", "1", "2">>}

RECURSIVE StripZeros(_)
\* the digits of a number without its leading zeros
StripZeros(s) == IF Len(s) > 1 /\ s[1] = "0" THEN StripZeros(Tail(s)) ELSE s

\* balance / divisor and balance % divisor for divisor = 10 ** decimals
BigIntDiv(balance, decimals) ==
  IF Len(balance) <= decimals THEN <<"0">> ELSE SubSeq(balance, 1, Len(balance) - decimals)
BigIntMod(balance, decimals) ==
  IF decimals = 0 THEN <<"0">>
  ELSE IF Len(balance) <= decimals THEN balance
  ELSE StripZeros(SubSeq(balance, Len(balance) - decimals + 1, Len(balance)))

\* String.prototype.padStart(n, '0') and String.prototype.slice(0, n)
padStart(str, n) == IF Len(str) >= n THEN str ELSE [i \in 1..(n - Len(str)) |-> "0"] \o str
slice(str, n) == SubSeq(str, 1, Min(n, Len(str)))

\* A slip: the remainder is not padded with zeros.
formatBalanceUnpadded(balance, decimals) ==
  BigIntDiv(balance, decimals) \o <<".">> \o slice(BigIntMod(balance, decimals), 6)

\* repl.ts:880-886
formatBalance(balance, decimals) ==
  LET integerPart == BigIntDiv(balance, decimals)
      fractionalPart == BigIntMod(balance, decimals)
      fractionalStr == slice(padStart(fractionalPart, decimals), 6)
  IN  integerPart \o <<".">> \o fractionalStr

\* commands/wallet.ts:620-627
formatBalanceOneShot(balance, decimals) ==
  LET integerPart == BigIntDiv(balance, decimals)
      fractionalPart == BigIntMod(balance, decimals)
      fractionalStr == slice(padStart(fractionalPart, decimals), 6)
  IN  integerPart \o <<".">> \o fractionalStr

\* repl.ts:773 and commands/wallet.ts:513: a token balance is formatted
FormatBalanceCall ==
  /\ shown.repl = <<>>
  /\ shown' = [shown EXCEPT !.repl = formatBalance(shown.balance, shown.decimals),
                            !.oneShot = formatBalanceOneShot(shown.balance, shown.decimals)]
  /\ UNCHANGED <<netVars, task, last, scanVars, walletVars, running, exited,
                 engineInitialized, dbInstance, signals, cli, utilVars>>

InitFormat ==
  /\ loadedNetworks = <<>>
  /\ activeNetwork = NULL
  /\ providers = NoProviders
  /\ task = [t \in Tasks |-> IdleTask]
  /\ last = NoCall
  /\ InitScanVars
  /\ InitWalletVars
  /\ InitProcessVars
  /\ cli = NoLine
  /\ \E b \in Balances, d \in 0..MaxDecimals :
       shown = [balance |-> b, decimals |-> d, repl |-> <<>>, oneShot |-> <<>>]

SpecFormat == InitFormat /\ [][FormatBalanceCall]_vars

(***************************************************************************)
(* The sync command inside the REPL process: the --wait loop (repl.ts      *)
(* 700-718), the scan events of the connected chain and the signals.       *)
(***************************************************************************)
\* repl.ts:652-723   sync [--wait] typed at the prompt
ReplSync(shouldWait) ==
  /\ Alive
  /\ running
  /\ SyncCommand(shouldWait)

\* repl.ts:708-710   the timer of the --wait loop fires in the live process
ReplSyncPoll ==
  /\ Alive
  /\ SyncPoll

\* engine.ts:114-124   the engine reports UTXO scan progress for Ethereum
ReplScanEvent(scanStatus, progress) ==
  /\ Alive
  /\ defaultUTXOMerkletreeScanCallback(NETWORK_CONFIGS["Ethereum"].chainId, scanStatus, progress)

NextSyncWait ==
  \/ \E w \in BOOLEAN : ReplSync(w)
  \/ ReplSyncPoll
  \/ \E e \in ScanEvents : ReplScanEvent(e[1], e[2])
  \/ \E sig \in Signals : Signal(sig)
  \/ \E t \in Tasks : ReplUnloadProviderReturns(t)
  \/ \E t \in Tasks : ShutdownUnloadAllNext(t)
  \/ \E t \in Tasks : StopRailgunEngineReturns(t)
  \/ \E t \in Tasks : DbCloseReturns(t)

SpecSyncWait == InitRepl /\ [][NextSyncWait]_vars
\* the engine calls of a teardown return and their callers are resumed
SpecSyncWaitFair == SpecSyncWait /\ \A t \in Tasks : WF_vars(Progress(t))

\* the --wait loop is suspended on its timer
SyncWaiting == syncPc.pc = "waiting"

\* C23: if a UTXO Complete event for the chain is delivered while the --wait
\* loop is waiting, the loop eventually returns (the poll timer being fairly
\* scheduled), and it reports 'sync complete' only at a poll where
\* isUTXOScanComplete(chainId) is true.
C23_WaitLoopReturns ==
  /\ [](syncOut = "waitComplete" => isUTXOScanComplete(ReportedChain))
  /\ (SyncWaiting /\ isUTXOScanComplete(syncPc.chainId)) ~> ~SyncWaiting

UtxoTrack(state) == <<state.utxoStatus, state.utxoProgress>>
TxidTrack(state) == <<state.txidStatus, state.txidProgress>>

\* C25: a progress event for a chain on one track changes only that track's
\* status and progress of that chain, both in one step; the chain's other
\* track stays as it was (but for the entry being created with both tracks at
\* Started/0 by the first event), every other chain's entry stays as it was,
\* and the reads of the sync command change no entry.
C25_CellsAreIndependent ==
  [][/\ \A c \in ScanChains :
          scanStates'[c] # scanStates[c] =>
            LET old == getOrCreateScanState(scanStates, c)[c]
                new == scanStates'[c]
            IN  /\ new.present
                /\ \A c2 \in ScanChains \ {c} : scanStates'[c2] = scanStates[c2]
                /\ \/ TxidTrack(new) = TxidTrack(old) /\ UtxoTrack(new) \in ScanEvents
                   \/ UtxoTrack(new) = UtxoTrack(old) /\ TxidTrack(new) \in ScanEvents
     /\ (syncPc' # syncPc \/ syncOut' # "none") => scanStates' = scanStates
    ]_vars

\* two chains with entries, the tracks of each in different states
C25_Witness ==
  \E c, c2 \in ScanChains :
    /\ c # c2
    /\ scanStates[c].present /\ scanStates[c2].present
    /\ UtxoTrack(scanStates[c]) = <<"Complete", 100>>
    /\ TxidTrack(scanStates[c]) = <<"Updated", 50>>
    /\ UtxoTrack(scanStates[c2]) = <<"Started", 0>>
    /\ TxidTrack(scanStates[c2]) = <<"Incomplete", 50>>
    /\ syncPc.pc = "waiting"

\* runREPL has read a command at its prompt and called its handler
ReplCommand ==
  \/ \E n \in ReplNetworks : ReplNetworkConnect(n)
  \/ \E n \in ReplNetworks : ReplNetworkDisconnect(n)
  \/ \E n \in ReplNetworks \cup Unsupported : ReplNetworkSwitch(n)

\* C26: once the REPL is shutting down (exit command, signal, or closed
\* input) the running flag never becomes true again and no further command is
\* read and dispatched to a handler.
C26_NoCommandAfterShutdown ==
  [][ShuttingDown => (/\ running' => running
                      /\ ShuttingDown'
                      /\ ~ReplCommand)]_vars

\* C27: after an input that resolves to no command, and after a command
\* handler has thrown, the REPL is still running and at its prompt: the loop
\* has not ended, no shutdown has begun and the running flag is as it was.
C27_LoopSurvivesErrors ==
  cli.outcome \in {"unknown", "threw"} =>
    /\ running
    /\ Alive
    /\ task[Main] = IdleTask
    /\ ~ShuttingDown
    /\ engineInitialized

\* a handler threw, after an earlier line had resolved to no command
C27_Witness ==
  /\ cli.outcome = "threw"
  /\ cli.cmd = <<"wallet", "create">>
  /\ running
  /\ loadedNetworks # <<>>

\* the words that name a command: its name and its aliases
CommandWords == UNION {{commands[i].name} \cup commands[i].aliases : i \in DOMAIN commands}
\* the name of the command that a word names
CommandOf(word) ==
  commands[CHOOSE i \in DOMAIN commands :
             word = commands[i].name \/ word \in commands[i].aliases].name
Line(a, b) == cli.line = a /\ cli.outcome = "resolved" => (cli.found /\ cli.cmd = b)

\* C28: findCommand, for every line of tokens: if the first two tokens name a
\* command, that command with the tokens after the second as arguments;
\* otherwise if the first token names a command, that command with the
\* remaining tokens as arguments; otherwise no command.  "wallet create" is
\* the two-word command, "balance refresh" is balance refresh, "st" is
\* status, "bogus" is no command.
C28_FindCommand ==
  /\ cli.outcome = "resolved" =>
       LET t == cli.line
       IN  IF Len(t) >= 2 /\ SubSeq(t, 1, 2) \in CommandWords
           THEN /\ cli.found
                /\ cli.cmd = CommandOf(SubSeq(t, 1, 2))
                /\ cli.args = SubSeq(t, 3, Len(t))
           ELSE IF Len(t) >= 1 /\ <<t[1]>> \in CommandWords
           THEN /\ cli.found
                /\ cli.cmd = CommandOf(<<t[1]>>)
                /\ cli.args = Tail(t)
           ELSE ~cli.found
  /\ Line(<<"wallet", "create">>, <<"wallet", "create">>)
  /\ Line(<<"balance", "refresh">>, <<"balance", "refresh">>)
  /\ Line(<<"st">>, <<"status">>)
  /\ (cli.line = <<"bogus">> /\ cli.outcome = "resolved") => ~cli.found

\* "balance refresh now" has resolved to balance refresh with one argument
C28_Witness ==
  /\ cli.outcome = "resolved"
  /\ cli.line = <<"balance", "refresh", "now">>
  /\ cli.cmd = <<"balance", "refresh">>
  /\ cli.args = <<"now">>

\* C29: every line that findCommand resolves to the exit command (exit, quit
\* or q, with or without further tokens), once the loop body has run on it,
\* has moved the REPL to shutting down.
C29_ExitCommandShutsDown ==
  (cli.outcome \notin {"none", "typed", "resolved"} /\ cli.found /\ cli.cmd = <<"exit">>) =>
    (~running /\ ShuttingDown)

RECURSIVE ValueOf(_)
\* the number that a sequence of digits writes
ValueOf(digits) ==
  IF digits = <<>> THEN 0
  ELSE 10 * ValueOf(SubSeq(digits, 1, Len(digits) - 1))
         + ((CHOOSE i \in DOMAIN DigitChars : DigitChars[i] = digits[Len(digits)]) - 1)
RECURSIVE Decimal(_)
\* a natural number written in decimal
Decimal(n) == IF n < 10 THEN <<DigitChars[n + 1]>> ELSE Decimal(n \div 10) \o <<DigitChars[(n % 10) + 1]>>
RECURSIVE Pow10(_)
Pow10(d) == IF d = 0 THEN 1 ELSE 10 * Pow10(d - 1)
\* balance div 10^decimals and the remainder, for a balance below 10^9
Quotient(balance, decimals) ==
  IF decimals >= 9 THEN 0 ELSE ValueOf(balance) \div Pow10(decimals)
Remainder(balance, decimals) ==
  IF decimals >= 9 THEN ValueOf(balance) ELSE ValueOf(balance) % Pow10(decimals)
\* the remainder left-padded with zeros to `decimals` digits
Padded(balance, decimals) ==
  LET r == Decimal(Remainder(balance, decimals))
  IN  [i \in 1..(IF decimals > Len(r) THEN decimals - Len(r) ELSE 0) |-> "0"] \o r
Formatted(b, d, text) == (shown.balance = b /\ shown.decimals = d) => shown.repl = text

\* C30: formatBalance(balance, decimals), for decimals in 0..18, is the
\* quotient balance div 10^decimals, a '.', and the first six characters of
\* the remainder written in decimal and left-padded with zeros to `decimals`
\* digits; later digits are dropped, never rounded (1234567890123456789 with
\* 18 gives "1.234567", 0 with 6 gives "0.000000"); the REPL's copy and the
\* one-shot copy return the same string.
C30_FormatBalance ==
  shown.repl # <<>> =>
    /\ shown.oneShot = shown.repl
    /\ Len(shown.balance) <= 9 =>
         shown.repl = Decimal(Quotient(shown.balance, shown.decimals)) \o <<".">>
                        \o SubSeq(Padded(shown.balance, shown.decimals), 1,
                                  Min(6, Len(Padded(shown.balance, shown.decimals))))
    /\ Formatted(<<"1", "2", "3", "4", "5", "6", "7", "8", "9", "0", "1", "2", "3", "4", "5", "6", "7", "8", "9">>, 18, <<"1", ".", "2", "3", "4", "5", "6", "7">>)
    /\ Formatted(<<"0">>, 6, <<"0", ".", "0", "0", "0", "0", "0", "0">>)
    /\ Formatted(<<"1", "9", "9", "9", "9", "9", "9", "9", "9">>, 8, <<"1", ".", "9", "9", "9", "9", "9", "9">>)

\* the nineteen-digit balance has been formatted with 18 decimals
C30_Witness ==
  /\ shown.balance = <<"1", "2", "3", "4", "5", "6", "7", "8", "9", "0", "1", "2", "3", "4", "5", "6", "7", "8", "9">>
  /\ shown.decimals = 18
  /\ shown.repl = <<"1", ".", "2", "3", "4", "5", "6", "7">>
  /\ shown.oneShot = <<"1", ".", "2", "3", "4", "5", "6", "7">>

\* C33: once a call has returned, the active network (when not null) has its
\* polling running: it is never a network that an earlier switchNetwork
\* paused.
C33_ActiveIsPolling ==
  (Quiescent /\ activeNetwork # NULL) => providers[activeNetwork] = "polling"

\* the --wait loop is polling a chain whose UTXO track shows the status
WaitingAt(status) == SyncWaiting /\ scanStates[syncPc.chainId].utxoStatus = status

\* C37: the --wait loop does not poll forever on a chain whose UTXO scan has
\* reached a final status: if the last UTXO event of the chain is Complete or
\* Incomplete and no other follows, the loop returns (the poll timer being
\* fairly scheduled).
C37_WaitEndsOnFinalStatus ==
  /\ []<>~WaitingAt("Complete")
  /\ []<>~WaitingAt("Incomplete")

(***************************************************************************)
(* The REPL process when the engine's unloadProvider may reject during a   *)
(* teardown.  unloadNetwork and unloadAll have no try/catch, so the error  *)
(* leaves unloadAll.  In runREPL it is neither an ExitPromptError nor a    *)
(* 'closed' error: it is thrown again (repl.ts:1043-1053), startREPL       *)
(* rejects and the catch of main calls cleanup (cli/index.ts:110-115).  In *)
(* the SIGINT handler (repl.ts:1059-1068) nothing catches it: the          *)
(* rejection is unhandled and ends the process with code 1.                *)
(***************************************************************************)
ShutdownUnloadProviderThrows(t) ==
  /\ Alive
  /\ task[t].pc = "unloadProvider"
  /\ task[t].op = "shutdown"
  /\ last' = [op |-> "unloadAll", arg |-> task[t].arg, outcome |-> "threw",
              calls |-> task[t].calls, pre |-> Snapshot]
  /\ IF t = Main
     THEN LET r == shutdownEngine(task, Main)
          IN  task' = r.tk /\ Exit(r)
     ELSE /\ task' = [task EXCEPT ![t].pc = "exit"]
          /\ exited' = "1"
  /\ UNCHANGED <<netVars, scanVars, walletVars, cliVars, utilVars, running, engineInitialized,
                 dbInstance, signals>>

NextTeardown ==
  \/ NextRepl
  \/ \E t \in Tasks : ShutdownUnloadProviderThrows(t)

SpecTeardown == InitRepl /\ [][NextTeardown]_vars

\* C38: when the unloading of one network has failed in a teardown, the
\* process terminates only with the other connected networks unloaded, the
\* engine shut down and the database closed.
C38_TeardownIsBestEffort ==
  (exited # "no" /\ last.op = "unloadAll" /\ last.outcome = "threw") =>
    /\ SetMembers(loadedNetworks) \subseteq {last.arg}
    /\ ~engineInitialized
    /\ dbInstance = NULL

(***************************************************************************)
(* The engine module by itself: initializeEngine (engine.ts:140-183) and   *)
(* shutdownEngine (engine.ts:188-204) called by two callers, each await a  *)
(* point where the other may run and where the awaited call may reject.    *)
(***************************************************************************)
EngineCallers == {Main, SigintTask}
EngineIdle == \A t \in EngineCallers : task[t].pc = "idle"

\* the call of t is suspended at the await of c
EngineAwait(t, o, c) ==
  task' = [task EXCEPT ![t] = [pc |-> c, op |-> o, arg |-> NULL, iter |-> 0,
                               calls |-> Append(IF task[t].op = o THEN task[t].calls ELSE <<>>,
                                                <<c, NULL>>),
                               pre |-> NoSnapshot]]

\* the call of t returns or throws; arg tells whether the engine was
\* initialized when the call was made
EngineReturn(t, o, calls, outcome, initialized) ==
  /\ task' = [task EXCEPT ![t] = IdleTask]
  /\ last' = [op |-> o, arg |-> IF initialized THEN "initialized" ELSE "notInitialized",
              outcome |-> outcome, calls |-> calls, pre |-> NoSnapshot]

engineFrame == <<netVars, scanVars, walletVars, cliVars, utilVars, running, exited, signals>>

\* engine.ts:140-150: the guard, and the call up to await ensureDirectories
InitializeEngineCall(t) ==
  /\ task[t].pc = "idle"
  /\ IF engineInitialized
     THEN EngineReturn(t, "initializeEngine", <<>>, "ok", TRUE)
     ELSE EngineAwait(t, "initializeEngine", "ensureDirectories") /\ last' = last
  /\ UNCHANGED <<engineInitialized, dbInstance, engineFrame>>

\* engine.ts:150-169: the database handle is created, then await startRailgunEngine
EnsureDirectoriesReturns(t) ==
  /\ task[t].pc = "ensureDirectories"
  /\ dbInstance' = "open"
  /\ EngineAwait(t, "initializeEngine", "startRailgunEngine")
  /\ UNCHANGED <<last, engineInitialized, engineFrame>>

\* engine.ts:150: ensureDirectories rejects
EnsureDirectoriesThrows(t) ==
  /\ task[t].pc = "ensureDirectories"
  /\ EngineReturn(t, "initializeEngine", task[t].calls, "threw", FALSE)
  /\ UNCHANGED <<engineInitialized, dbInstance, engineFrame>>

\* engine.ts:171-182: the callbacks are set and engineInitialized = true
StartRailgunEngineReturns(t) ==
  /\ task[t].pc = "startRailgunEngine"
  /\ engineInitialized' = TRUE
  /\ EngineReturn(t, "initializeEngine", task[t].calls, "ok", FALSE)
  /\ UNCHANGED <<dbInstance, engineFrame>>

\* engine.ts:159: startRailgunEngine rejects; nothing closes or clears dbInstance
StartRailgunEngineThrows(t) ==
  /\ task[t].pc = "startRailgunEngine"
  /\ EngineReturn(t, "initializeEngine", task[t].calls, "threw", FALSE)
  /\ UNCHANGED <<engineInitialized, dbInstance, engineFrame>>

\* engine.ts:188-195: the guard, and the call up to await stopRailgunEngine
ShutdownEngineCall(t) ==
  /\ task[t].pc = "idle"
  /\ IF ~engineInitialized
     THEN EngineReturn(t, "shutdownEngine", <<>>, "ok", FALSE)
     ELSE EngineAwait(t, "shutdownEngine", "stopRailgunEngine") /\ last' = last
  /\ UNCHANGED <<engineInitialized, dbInstance, engineFrame>>

\* engine.ts:195-203: stopRailgunEngine resolved
EngineStopReturns(t) ==
  /\ task[t].pc = "stopRailgunEngine"
  /\ IF dbInstance # NULL
     THEN /\ EngineAwait(t, "shutdownEngine", "dbInstance.close")
          /\ UNCHANGED <<last, engineInitialized>>
     ELSE /\ engineInitialized' = FALSE
          /\ EngineReturn(t, "shutdownEngine", task[t].calls, "ok", TRUE)
  /\ UNCHANGED <<dbInstance, engineFrame>>

\* engine.ts:195: stopRailgunEngine rejects
EngineStopThrows(t) ==
  /\ task[t].pc = "stopRailgunEngine"
  /\ EngineReturn(t, "shutdownEngine", task[t].calls, "threw", TRUE)
  /\ UNCHANGED <<engineInitialized, dbInstance, engineFrame>>

\* engine.ts:198-203: dbInstance.close() resolved
EngineDbCloseReturns(t) ==
  /\ task[t].pc = "dbInstance.close"
  /\ dbInstance' = NULL
  /\ engineInitialized' = FALSE
  /\ EngineReturn(t, "shutdownEngine", task[t].calls, "ok", TRUE)
  /\ UNCHANGED engineFrame

\* engine.ts:198: dbInstance.close() rejects
EngineDbCloseThrows(t) ==
  /\ task[t].pc = "dbInstance.close"
  /\ EngineReturn(t, "shutdownEngine", task[t].calls, "threw", TRUE)
  /\ UNCHANGED <<engineInitialized, dbInstance, engineFrame>>

\* the module after import: let engineInitialized = false, dbInstance = null
InitEngine ==
  /\ loadedNetworks = <<>>
  /\ activeNetwork = NULL
  /\ providers = NoProviders
  /\ task = [t \in Tasks |-> IdleTask]
  /\ last = NoCall
  /\ InitScanVars
  /\ InitWalletVars
  /\ running = TRUE
  /\ exited = "no"
  /\ engineInitialized = FALSE
  /\ dbInstance = NULL
  /\ signals = 0
  /\ cli = NoLine
  /\ shown = NothingShown

NextEngine ==
  \E t \in EngineCallers :
    \/ InitializeEngineCall(t)
    \/ EnsureDirectoriesReturns(t)
    \/ EnsureDirectoriesThrows(t)
    \/ StartRailgunEngineReturns(t)
    \/ StartRailgunEngineThrows(t)
    \/ ShutdownEngineCall(t)
    \/ EngineStopReturns(t)
    \/ EngineStopThrows(t)
    \/ EngineDbCloseReturns(t)
    \/ EngineDbCloseThrows(t)

SpecEngine == InitEngine /\ [][NextEngine]_vars

\* C39: while no initializeEngine or shutdownEngine call is in progress, a
\* database handle is held exactly when engineInitialized is true; so a
\* failed initializeEngine leaves no handle, and an initializeEngine on an
\* initialized engine calls nothing.
C39_HandleIffInitialized ==
  /\ EngineIdle => (dbInstance # NULL <=> engineInitialized)
  /\ (last.op = "initializeEngine" /\ last.arg = "initialized") => last.calls = <<>>

\* C40: after unloadAll has returned, no network is connected, the active
\* network is null and the engine's unloadProvider was called once for each
\* network that was connected when the call began, in the Set's order.
C40_UnloadAllUnloadsEach ==
  JustReturned("unloadAll", "ok") =>
    /\ loadedNetworks = <<>>
    /\ activeNetwork = NULL
    /\ last.calls = [i \in 1..Len(last.pre.loaded) |-> <<"unloadProvider", last.pre.loaded[i]>>]

\* unloadAll returned with two networks connected, the second one active
C40_Witness ==
  /\ JustReturned("unloadAll", "ok")
  /\ Len(last.pre.loaded) >= 2
  /\ last.pre.active = last.pre.loaded[2]
  /\ loadedNetworks = <<>>

====
